---- MODULE Spec2Model ----
(***************************************************************************)
(* Soft-delete / restore lifecycle of the nextbackend repository layer     *)
(* (UserRepository, ProductRepository, CategoryRepository) and of the      *)
(* services that wrap it (UserService, ProductService, CategoryService),   *)
(* over a MongoDB store with partial unique indexes.                       *)
(*                                                                         *)
(* A collection is a sequence of documents; the _id of a document is its   *)
(* position.  deletedAt = NullDate is the "null" of the schema: the        *)
(* document is active.  Any other value is a tombstone timestamp.          *)
(***************************************************************************)
EXTENDS Integers, Sequences, FiniteSets, TLC

\* ---------------------------------------------------------------- bounds
MaxUsers == 2
MaxProducts == 2
MaxCategories == 2
MaxTime == 1
MaxStamp == 3

\* ----------------------------------------------------------------- state
\* The variables are described where the requests are, under "state".
VARIABLES scen, users, products, categories, last, procs

\* ------------------------------------------------------------ characters
NullDate == 0
NoDoc == [none |-> TRUE]
NoPhone == "absent"
NoText == << >>

UpperChars == {"C", "A"}
LowerChars == {"c", "h", "d", "k", "a", "b"}
AlnumChars == UpperChars \cup LowerChars

\* String.prototype.toLowerCase on one character
LowerChar(c) == CASE c = "C" -> "c" [] c = "A" -> "a" [] OTHER -> c

ToLowerCase(s) == [i \in DOMAIN s |-> LowerChar(s[i])]

\* String.prototype.trim
RECURSIVE TrimLeft(_)
TrimLeft(s) == IF s # << >> /\ Head(s) = " " THEN TrimLeft(Tail(s)) ELSE s

RECURSIVE TrimRight(_)
TrimRight(s) ==
    IF s # << >> /\ s[Len(s)] = " " THEN TrimRight(SubSeq(s, 1, Len(s) - 1)) ELSE s

Trim(s) == TrimRight(TrimLeft(s))

\* slug.replace(/[^A-Za-z0-9\s]/g, '') of slugify's strict option
IsStrictChar(c) == c \in AlnumChars \/ c = " "

StrictChars(s) == SelectSeq(s, IsStrictChar)

\* slug.replace(/\s+/g, '-'): every run of white space becomes one dash
RECURSIVE DashSpaces(_)
DashSpaces(s) ==
    IF s = << >> THEN << >>
    ELSE IF Head(s) = " "
         THEN <<"-">> \o DashSpaces(TrimLeft(s))
         ELSE <<Head(s)>> \o DashSpaces(Tail(s))

\* ServiceUtils.generateSlug: slugify(name, { lower: true, strict: true })
generateSlug(name) == ToLowerCase(DashSpaces(Trim(StrictChars(name))))


\* --------------------------------------------------------- MongoDB store
\* Error code of a write that a unique index rejects.
DuplicateKey == 11000

IsActive(doc) == doc.deletedAt = NullDate

\* timestamps: true of a schema: mongoose sets updatedAt to the time of the
\* insert and, in every update it sends, to the time of that update.  A
\* document of such a schema carries updatedAt where the model tracks it;
\* the value counts the writes the document has seen, the first being the
\* insert: a later write has a later time.  The user and the category
\* schema have the option, the product schema does not.
TracksTimestamps == scen.scope \in {"userLifecycle", "categoryLifecycle"}

TimestampsOnUpdate_Off(doc) == doc

TimestampsOnUpdate(doc) ==
    IF "updatedAt" \in DOMAIN doc THEN [doc EXCEPT !.updatedAt = @ + 1] ELSE doc

\* Model.create(data): insert one document unless a unique index rejects it.
MongoCreate(coll, doc, IndexesHold(_)) ==
    LET next == Append(coll, doc) IN
    IF IndexesHold(next)
    THEN [code |-> 0, coll |-> next, id |-> Len(next), doc |-> doc]
    ELSE [code |-> DuplicateKey, coll |-> coll, id |-> 0, doc |-> NoDoc]

\* Model.findByIdAndUpdate(id, update, { new: true }): null when no document
\* has the id, the updated document otherwise; a unique index may reject it.
MongoFindByIdAndUpdate(coll, id, Update(_), IndexesHold(_)) ==
    IF id \notin DOMAIN coll
    THEN [code |-> 0, coll |-> coll, id |-> 0, doc |-> NoDoc]
    ELSE LET next == [coll EXCEPT ![id] = TimestampsOnUpdate(Update(coll[id]))] IN
         IF IndexesHold(next)
         THEN [code |-> 0, coll |-> next, id |-> id, doc |-> next[id]]
         ELSE [code |-> DuplicateKey, coll |-> coll, id |-> 0, doc |-> NoDoc]

\* Model.findOne(filter): the first document, in natural order, that matches.
MongoFindOne(coll, Matches(_, _)) ==
    LET hits == {i \in DOMAIN coll : Matches(i, coll[i])} IN
    IF hits = {} THEN [id |-> 0, doc |-> NoDoc]
    ELSE LET first == CHOOSE i \in hits : \A j \in hits : i <= j IN
         [id |-> first, doc |-> coll[first]]

\* ------------------------------------------------------------ user model
\* The email index declared without unique: true: it rejects nothing.
UserEmailIndexHolds_NotUnique(coll) == TRUE

\* userSchema.index({ email, deletedAt }, unique, partial on deletedAt: null)
UserEmailIndexHolds(coll) ==
    \A i, j \in DOMAIN coll :
        (i # j /\ IsActive(coll[i]) /\ IsActive(coll[j]))
            => coll[i].email # coll[j].email

\* phoneNumber: { unique: true }: not partial and not sparse, so a document
\* without a phoneNumber is indexed under null like any other value.
UserPhoneIndexHolds(coll) ==
    \A i, j \in DOMAIN coll : i # j => coll[i].phoneNumber # coll[j].phoneNumber

\* The user schema without its email index: only phoneNumber is unique.
UserIndexesHold_PhoneOnly(coll) == UserPhoneIndexHolds(coll)

UserIndexesHold(coll) == UserEmailIndexHolds(coll) /\ UserPhoneIndexHolds(coll)

\* The email path of userSchema: lowercase: true, trim: true
CastEmail(email) == ToLowerCase(Trim(email))

\* A user without a password (an OAuth account): the field is falsy.
NoPassword == ""

\* bcrypt.hash(password, 10) and bcrypt.compare(password, hash): the hash is
\* not the password, and compare accepts exactly the password it came from.
\* The random salt, which compare ignores, is left out.
bcryptHash(password) ==
    CASE password = "Pw1" -> "$2b$10$Pw1"
      [] password = "Pw2" -> "$2b$10$Pw2"
      [] OTHER -> "$2b$10$"

bcryptCompare(password, hash) == password # NoPassword /\ hash = bcryptHash(password)

\* A new user document with the schema defaults; provider is "credentials"
\* or "oauth".
NewUserDoc(data) ==
    IF TracksTimestamps
    THEN [email |-> CastEmail(data.email), password |-> data.password,
          provider |-> data.provider, phoneNumber |-> NoPhone, deletedAt |-> NullDate,
          updatedAt |-> 1]
    ELSE [email |-> CastEmail(data.email), password |-> data.password,
          provider |-> data.provider, phoneNumber |-> NoPhone, deletedAt |-> NullDate]

\* $set of an UpdateUserDTO; a field the patch does not carry is left alone.
ApplyUserPatch(doc, patch) ==
    [doc EXCEPT !.email = IF patch.email = NoText THEN @ ELSE CastEmail(patch.email),
                !.phoneNumber = IF patch.phoneNumber = NoPhone THEN @ ELSE patch.phoneNumber]

\* ------------------------------------------------------- user repository
\* A repository call yields its outcome (out: "ok" with the document in val,
\* "null", or the name of the error it throws), the collection it leaves and
\* the number of warn/error entries it logs.
RepoResult(out, val, coll, logs) == [out |-> out, val |-> val, coll |-> coll, logs |-> logs]

UserRepository_create(coll, data) ==
    LET w == MongoCreate(coll, NewUserDoc(data), UserIndexesHold) IN
    IF w.code = 0 THEN RepoResult("ok", w.doc, w.coll, 0)
    ELSE IF w.code = DuplicateKey THEN RepoResult("Conflict", NoDoc, coll, 1)
    ELSE RepoResult("Internal", NoDoc, coll, 1)

UserRepository_delete(coll, id, date) ==
    LET w == MongoFindByIdAndUpdate(coll, id,
                 LAMBDA d : [d EXCEPT !.deletedAt = date], UserIndexesHold) IN
    IF w.code # 0 THEN RepoResult("Internal", NoDoc, coll, 1)
    ELSE IF w.doc = NoDoc THEN RepoResult("null", NoDoc, coll, 0)
    ELSE RepoResult("ok", w.doc, w.coll, 0)

UserRepository_update(coll, id, data) ==
    LET w == MongoFindByIdAndUpdate(coll, id,
                 LAMBDA d : ApplyUserPatch(d, data), UserIndexesHold) IN
    IF w.code = DuplicateKey THEN RepoResult("Conflict", NoDoc, coll, 1)
    ELSE IF w.code # 0 THEN RepoResult("Internal", NoDoc, coll, 1)
    ELSE IF w.doc = NoDoc THEN RepoResult("null", NoDoc, coll, 0)
    ELSE RepoResult("ok", w.doc, w.coll, 0)

\* delete as repositories/userRepository.ts, the earlier user repository that
\* is still in the tree, has it: findByIdAndDelete(id) removes the document
\* and returns it, or null.  Removing an element renumbers the ones after it;
\* only the number of documents is read from the result.
LegacyUserRepository_delete(coll, id) ==
    IF id \notin DOMAIN coll THEN RepoResult("null", NoDoc, coll, 0)
    ELSE RepoResult("ok", coll[id],
                    SubSeq(coll, 1, id - 1) \o SubSeq(coll, id + 1, Len(coll)), 0)

\* changePassword: findByIdAndUpdate(id, { password: data }); nothing is
\* returned, and an id that names no user is no error.
UserRepository_changePassword(coll, id, data) ==
    LET w == MongoFindByIdAndUpdate(coll, id,
                 LAMBDA d : [d EXCEPT !.password = data], UserIndexesHold) IN
    IF w.code # 0 THEN RepoResult("Internal", NoDoc, coll, 1)
    ELSE RepoResult("ok", NoDoc, w.coll, 0)

\* restore, first read: findOne({ _id: id, deletedAt: { $ne: null } })
UserRepository_restore_lookup(coll, id) ==
    MongoFindOne(coll, LAMBDA i, d : i = id /\ d.deletedAt # NullDate)

\* restore, second read: another active user with the email read before
UserRepository_restore_scan(coll, id, userToRestore) ==
    MongoFindOne(coll, LAMBDA i, d :
        i # id /\ d.deletedAt = NullDate /\ d.email = userToRestore.email)

\* restore, the write: findByIdAndUpdate(id, { deletedAt: null })
UserRepository_restore_write(coll, id) ==
    MongoFindByIdAndUpdate(coll, id,
        LAMBDA d : [d EXCEPT !.deletedAt = NullDate], UserIndexesHold)

\* The catch block without its first line: nothing is re-thrown.
UserRepository_restore_catch_NoRethrow(error) == [out |-> "Internal", logs |-> 1]

\* restore, what the caller gets for a rejected write: the catch block
\* re-throws a ConflictError and turns every other error into Internal.
UserRepository_restore_catch(error) ==
    IF error = "Conflict" THEN [out |-> "Conflict", logs |-> 0]
    ELSE [out |-> "Internal", logs |-> 1]

\* restore as one call: lookup, conflict scan, write, with the catch block
UserRepository_restore(coll, id) ==
    LET userToRestore == UserRepository_restore_lookup(coll, id) IN
    IF userToRestore.doc = NoDoc THEN RepoResult("null", NoDoc, coll, 0)
    ELSE LET conflictExists == UserRepository_restore_scan(coll, id, userToRestore.doc) IN
         IF conflictExists.doc # NoDoc
         THEN LET c == UserRepository_restore_catch("Conflict") IN
              RepoResult(c.out, NoDoc, coll, 1 + c.logs)
         ELSE LET w == UserRepository_restore_write(coll, id) IN
              IF w.code # 0
              THEN LET c == UserRepository_restore_catch("MongoServerError") IN
                   RepoResult(c.out, NoDoc, coll, c.logs)
              ELSE IF w.doc = NoDoc THEN RepoResult("null", NoDoc, coll, 0)
              ELSE RepoResult("ok", w.doc, w.coll, 0)

\* --------------------------------------------------------- product model
\* The name index without partialFilterExpression: unique over all products.
ProductNameIndexHolds_NotPartial(coll) ==
    \A i, j \in DOMAIN coll : i # j => coll[i].name # coll[j].name

\* productSchema.index({ name, deletedAt }, unique, partial on deletedAt: null)
ProductNameIndexHolds(coll) ==
    \A i, j \in DOMAIN coll :
        (i # j /\ IsActive(coll[i]) /\ IsActive(coll[j]))
            => coll[i].name # coll[j].name

\* productSchema.index({ slug, deletedAt }, unique, partial on deletedAt: null)
ProductSlugIndexHolds(coll) ==
    \A i, j \in DOMAIN coll :
        (i # j /\ IsActive(coll[i]) /\ IsActive(coll[j]))
            => coll[i].slug # coll[j].slug

ProductIndexesHold(coll) == ProductNameIndexHolds(coll) /\ ProductSlugIndexHolds(coll)

NoCategory == 0

NewProductDoc(data) ==
    [name |-> data.name, slug |-> data.slug, categoryId |-> data.categoryId,
     price |-> data.price, deletedAt |-> NullDate]

\* $set of an UpdateProductDTO; a field the patch does not carry is left alone.
\* A name of NoText is a patch without a name unless emptyName says that the
\* patch carries name: "", which $set stores like any other string.
ApplyProductPatch(doc, patch) ==
    [doc EXCEPT !.name = IF patch.emptyName THEN NoText
                         ELSE IF patch.name = NoText THEN @ ELSE patch.name,
                !.slug = IF patch.slug = NoText THEN @ ELSE patch.slug,
                !.categoryId = IF patch.categoryId = NoCategory THEN @ ELSE patch.categoryId,
                !.price = IF patch.setPrice THEN patch.price ELSE @]

\* ---------------------------------------------------- product repository
\* generateQuery testing includeDeleted === false: undefined and null lift
\* the restriction as true does.
ProductGenerateQuery_OnlyFalse(filters, doc) ==
    /\ (filters.categoryId # NoCategory => doc.categoryId = filters.categoryId)
    /\ (filters.includeDeleted = "false" => doc.deletedAt = NullDate)

\* generateQuery of the product repository, as the predicate the query is:
\* categoryId only when the filter carries one, deletedAt: null unless
\* includeDeleted is exactly true.
ProductGenerateQuery(filters, doc) ==
    /\ (filters.categoryId # NoCategory => doc.categoryId = filters.categoryId)
    /\ (filters.includeDeleted # "true" => doc.deletedAt = NullDate)

Min(a, b) == IF a <= b THEN a ELSE b

\* The ids of a set in ascending order: the natural order of the collection.
RECURSIVE SortedIds(_)
SortedIds(S) ==
    IF S = {} THEN << >>
    ELSE LET m == CHOOSE i \in S : \A j \in S : i <= j IN
         <<m>> \o SortedIds(S \ {m})

\* find(query).skip(offset) without the limit: a page runs to the end.
FindPage_NoLimit(matching, pageNumber, entryPerPage) ==
    SubSeq(SortedIds(matching), (pageNumber - 1) * entryPerPage + 1, Cardinality(matching))

\* The page a find(query).limit(entryPerPage).skip(offset) returns, as the
\* ids of its documents.
FindPage(matching, pageNumber, entryPerPage) ==
    LET offset == (pageNumber - 1) * entryPerPage IN
    SubSeq(SortedIds(matching), offset + 1,
           Min(offset + entryPerPage, Cardinality(matching)))

\* The result with hasNext computed from the count alone.
PageResult_CountOnly(total, data, pageNumber, entryPerPage) ==
    [data |-> data,
     hasNext |-> (pageNumber - 1) * entryPerPage < total,
     hasPrev |-> pageNumber > 1,
     shownEntryCount |-> Len(data)]

\* The object findAll returns, built from what countDocuments(query) and
\* the find resolved to.
PageResult(total, data, pageNumber, entryPerPage) ==
    LET offset == (pageNumber - 1) * entryPerPage IN
    [data |-> data,
     hasNext |-> offset + Len(data) < total,
     hasPrev |-> pageNumber > 1,
     shownEntryCount |-> Len(data)]

\* findAll when both reads see the same documents.
PaginatedData(matching, pageNumber, entryPerPage) ==
    PageResult(Cardinality(matching), FindPage(matching, pageNumber, entryPerPage),
               pageNumber, entryPerPage)

\* The documents generateQuery(filters) selects
ProductMatching(coll, filters) ==
    {i \in DOMAIN coll : ProductGenerateQuery(filters, coll[i])}

ProductRepository_findAll(coll, filters) ==
    PaginatedData(ProductMatching(coll, filters), filters.pageNumber, filters.entryPerPage)

\* create: a duplicate key is logged as a warning, and then, with no throw
\* in that branch, as an error that becomes an InternalServerError.
ProductRepository_create(coll, data) ==
    LET w == MongoCreate(coll, NewProductDoc(data), ProductIndexesHold) IN
    IF w.code = 0 THEN RepoResult("ok", w.doc, w.coll, 0)
    ELSE IF w.code = DuplicateKey THEN RepoResult("Internal", NoDoc, coll, 2)
    ELSE RepoResult("Internal", NoDoc, coll, 1)

\* update with the duplicate-key branch of create: the conflict is logged as
\* a warning and thrown as an InternalServerError.
ProductRepository_update_NoConflict(coll, id, data) ==
    LET w == MongoFindByIdAndUpdate(coll, id,
                 LAMBDA d : ApplyProductPatch(d, data), ProductIndexesHold) IN
    IF w.code # 0 THEN RepoResult("Internal", NoDoc, coll, 2)
    ELSE IF w.doc = NoDoc THEN RepoResult("null", NoDoc, coll, 0)
    ELSE RepoResult("ok", w.doc, w.coll, 0)

ProductRepository_update(coll, id, data) ==
    LET w == MongoFindByIdAndUpdate(coll, id,
                 LAMBDA d : ApplyProductPatch(d, data), ProductIndexesHold) IN
    IF w.code = DuplicateKey THEN RepoResult("Conflict", NoDoc, coll, 1)
    ELSE IF w.code # 0 THEN RepoResult("Internal", NoDoc, coll, 1)
    ELSE IF w.doc = NoDoc THEN RepoResult("null", NoDoc, coll, 0)
    ELSE RepoResult("ok", w.doc, w.coll, 0)

ProductRepository_delete(coll, id, date) ==
    LET w == MongoFindByIdAndUpdate(coll, id,
                 LAMBDA d : [d EXCEPT !.deletedAt = date], ProductIndexesHold) IN
    IF w.code # 0 THEN RepoResult("Internal", NoDoc, coll, 1)
    ELSE IF w.doc = NoDoc THEN RepoResult("null", NoDoc, coll, 0)
    ELSE RepoResult("ok", w.doc, w.coll, 0)

\* The lookup without deletedAt: { $ne: null }: any product with the id.
ProductRepository_restore_lookup_AnyState(coll, id) ==
    MongoFindOne(coll, LAMBDA i, d : i = id)

\* restore, first read: findOne({ _id: id, deletedAt: { $ne: null } })
ProductRepository_restore_lookup(coll, id) ==
    MongoFindOne(coll, LAMBDA i, d : i = id /\ d.deletedAt # NullDate)

\* restore, second read: another active product with the name or the slug
ProductRepository_restore_scan(coll, id, productToRestore) ==
    MongoFindOne(coll, LAMBDA i, d :
        /\ i # id
        /\ d.deletedAt = NullDate
        /\ (d.name = productToRestore.name \/ d.slug = productToRestore.slug))

ProductRepository_restore_write(coll, id) ==
    MongoFindByIdAndUpdate(coll, id,
        LAMBDA d : [d EXCEPT !.deletedAt = NullDate], ProductIndexesHold)

\* The catch block of restore logs every error, the ConflictError thrown two
\* lines above included, and throws an InternalServerError in its place.
ProductRepository_restore_catch(error) == [out |-> "Internal", logs |-> 1]

ProductRepository_restore(coll, id) ==
    LET productToRestore == ProductRepository_restore_lookup(coll, id) IN
    IF productToRestore.doc = NoDoc THEN RepoResult("null", NoDoc, coll, 0)
    ELSE LET conflictExists == ProductRepository_restore_scan(coll, id, productToRestore.doc) IN
         IF conflictExists.doc # NoDoc
         THEN LET c == ProductRepository_restore_catch("Conflict") IN
              RepoResult(c.out, NoDoc, coll, 1 + c.logs)
         ELSE LET w == ProductRepository_restore_write(coll, id) IN
              IF w.code # 0
              THEN LET c == ProductRepository_restore_catch("MongoServerError") IN
                   RepoResult(c.out, NoDoc, coll, c.logs)
              ELSE IF w.doc = NoDoc THEN RepoResult("null", NoDoc, coll, 0)
              ELSE RepoResult("ok", w.doc, w.coll, 0)

\* -------------------------------------------------------- category model
\* categorySchema.index({ name, deletedAt }, unique, partial on deletedAt: null)
CategoryNameIndexHolds(coll) ==
    \A i, j \in DOMAIN coll :
        (i # j /\ IsActive(coll[i]) /\ IsActive(coll[j]))
            => coll[i].name # coll[j].name

\* categorySchema.index({ slug, deletedAt }, unique, partial on deletedAt: null)
CategorySlugIndexHolds(coll) ==
    \A i, j \in DOMAIN coll :
        (i # j /\ IsActive(coll[i]) /\ IsActive(coll[j]))
            => coll[i].slug # coll[j].slug

CategoryIndexesHold(coll) == CategoryNameIndexHolds(coll) /\ CategorySlugIndexHolds(coll)

\* A CreateCategoryDTO carries deletedAt (zCreateCategorySchema omits only
\* isActive), so the new document takes it from the data.
NewCategoryDoc(data) ==
    IF TracksTimestamps
    THEN [name |-> data.name, slug |-> data.slug, deletedAt |-> data.deletedAt,
          updatedAt |-> 1]
    ELSE [name |-> data.name, slug |-> data.slug, deletedAt |-> data.deletedAt]

\* $set of an UpdateCategoryDTO (zCategorySchema.partial(): name, slug and
\* deletedAt are all optional); setDeletedAt says whether deletedAt is there,
\* emptyName whether the patch carries name: "".
ApplyCategoryPatch(doc, patch) ==
    [doc EXCEPT !.name = IF patch.emptyName THEN NoText
                         ELSE IF patch.name = NoText THEN @ ELSE patch.name,
                !.slug = IF patch.slug = NoText THEN @ ELSE patch.slug,
                !.deletedAt = IF patch.setDeletedAt THEN patch.deletedAt ELSE @]

\* --------------------------------------------------- category repository
\* name and slug of categorySchema are required: true, which for a String
\* path rejects the empty string too.
CategoryRequiredHolds(doc) == doc.name # NoText /\ doc.slug # NoText

\* create: the document is validated against the schema before the insert;
\* a ValidationError carries no code 11000.
CategoryRepository_create(coll, data) ==
    LET w == MongoCreate(coll, NewCategoryDoc(data), CategoryIndexesHold) IN
    IF ~CategoryRequiredHolds(NewCategoryDoc(data)) THEN RepoResult("Internal", NoDoc, coll, 1)
    ELSE IF w.code = 0 THEN RepoResult("ok", w.doc, w.coll, 0)
    ELSE IF w.code = DuplicateKey THEN RepoResult("Conflict", NoDoc, coll, 1)
    ELSE RepoResult("Internal", NoDoc, coll, 1)

CategoryRepository_update(coll, id, data) ==
    LET w == MongoFindByIdAndUpdate(coll, id,
                 LAMBDA d : ApplyCategoryPatch(d, data), CategoryIndexesHold) IN
    IF w.code = DuplicateKey THEN RepoResult("Conflict", NoDoc, coll, 1)
    ELSE IF w.code # 0 THEN RepoResult("Internal", NoDoc, coll, 1)
    ELSE IF w.doc = NoDoc THEN RepoResult("null", NoDoc, coll, 0)
    ELSE RepoResult("ok", w.doc, w.coll, 0)

CategoryRepository_delete(coll, id, date) ==
    LET w == MongoFindByIdAndUpdate(coll, id,
                 LAMBDA d : [d EXCEPT !.deletedAt = date], CategoryIndexesHold) IN
    IF w.code # 0 THEN RepoResult("Internal", NoDoc, coll, 1)
    ELSE IF w.doc = NoDoc THEN RepoResult("null", NoDoc, coll, 0)
    ELSE RepoResult("ok", w.doc, w.coll, 0)

\* restore, first read: findOne({ _id: id, deletedAt: { $ne: null } })
CategoryRepository_restore_lookup(coll, id) ==
    MongoFindOne(coll, LAMBDA i, d : i = id /\ d.deletedAt # NullDate)

\* restore, second read.  The filter spells the operator "or", not "$or", so
\* it names a path "or" that the schema does not have.  With strictQuery on,
\* mongoose strips the unknown path and the filter is { _id: { $ne: id },
\* deletedAt: null }; with strictQuery off the filter asks for a document
\* whose field "or" equals the array, and no category has an "or" field.
CategoryRepository_restore_scan(coll, id, categoryToRestore, strictQuery) ==
    MongoFindOne(coll, LAMBDA i, d :
        /\ i # id
        /\ d.deletedAt = NullDate
        /\ (strictQuery \/ "or" \in DOMAIN d))

CategoryRepository_restore_write(coll, id) ==
    MongoFindByIdAndUpdate(coll, id,
        LAMBDA d : [d EXCEPT !.deletedAt = NullDate], CategoryIndexesHold)

\* The catch block of restore logs every error, the ConflictError thrown two
\* lines above included, and throws an InternalServerError in its place.
CategoryRepository_restore_catch(error) == [out |-> "Internal", logs |-> 1]

CategoryRepository_restore(coll, id, strictQuery) ==
    LET categoryToRestore == CategoryRepository_restore_lookup(coll, id) IN
    IF categoryToRestore.doc = NoDoc THEN RepoResult("null", NoDoc, coll, 0)
    ELSE LET conflictExists ==
                 CategoryRepository_restore_scan(coll, id, categoryToRestore.doc, strictQuery) IN
         IF conflictExists.doc # NoDoc
         THEN LET c == CategoryRepository_restore_catch("Conflict") IN
              RepoResult(c.out, NoDoc, coll, 1 + c.logs)
         ELSE LET w == CategoryRepository_restore_write(coll, id) IN
              IF w.code # 0
              THEN LET c == CategoryRepository_restore_catch("MongoServerError") IN
                   RepoResult(c.out, NoDoc, coll, c.logs)
              ELSE IF w.doc = NoDoc THEN RepoResult("null", NoDoc, coll, 0)
              ELSE RepoResult("ok", w.doc, w.coll, 0)

\* --------------------------------------------------------- reads by id
\* findById of the three repositories: findOne({ _id: id }) with
\* deletedAt: null added unless options.includeDeleted is truthy.
UserRepository_findById(coll, id, options) ==
    MongoFindOne(coll, LAMBDA i, d :
        i = id /\ (options.includeDeleted # "true" => d.deletedAt = NullDate))

\* findByIdWithAuth: findById with the password selected
UserRepository_findByIdWithAuth(coll, id, options) ==
    MongoFindOne(coll, LAMBDA i, d :
        i = id /\ (options.includeDeleted # "true" => d.deletedAt = NullDate))

ProductRepository_findById(coll, id, options) ==
    MongoFindOne(coll, LAMBDA i, d :
        i = id /\ (options.includeDeleted # "true" => d.deletedAt = NullDate))

CategoryRepository_findById(coll, id, options) ==
    MongoFindOne(coll, LAMBDA i, d :
        i = id /\ (options.includeDeleted # "true" => d.deletedAt = NullDate))

\* The options of a caller who passes none.
DefaultOptions == [includeDeleted |-> "undefined"]

\* findBySlug and findByName of the product repository, findByEmail of the
\* user repository: findOne on the field, deletedAt: null unless
\* options.includeDeleted is truthy.  The email of a filter is cast by the
\* schema path as a stored email is.
ProductRepository_findBySlug(coll, slug, options) ==
    MongoFindOne(coll, LAMBDA i, d :
        d.slug = slug /\ (options.includeDeleted # "true" => d.deletedAt = NullDate))

ProductRepository_findByName(coll, name, options) ==
    MongoFindOne(coll, LAMBDA i, d :
        d.name = name /\ (options.includeDeleted # "true" => d.deletedAt = NullDate))

UserRepository_findByEmail(coll, email, options) ==
    MongoFindOne(coll, LAMBDA i, d :
        /\ d.email = CastEmail(email)
        /\ (options.includeDeleted # "true" => d.deletedAt = NullDate))

\* findByEmailWithAuth: findByEmail with the password selected
UserRepository_findByEmailWithAuth(coll, email, options) ==
    MongoFindOne(coll, LAMBDA i, d :
        /\ d.email = CastEmail(email)
        /\ (options.includeDeleted # "true" => d.deletedAt = NullDate))

\* ------------------------------------------------------------ list reads
\* generateQuery of the user and of the category repository for filters that
\* carry no text: deletedAt: null unless includeDeleted is exactly true.
UserGenerateQuery(filters, doc) == filters.includeDeleted # "true" => doc.deletedAt = NullDate

\* generateQuery without its includeDeleted test: no deletedAt in the query.
CategoryGenerateQuery_Everything(filters, doc) == TRUE

CategoryGenerateQuery(filters, doc) ==
    filters.includeDeleted # "true" => doc.deletedAt = NullDate

UserRepository_findAll(coll, filters) ==
    PaginatedData({i \in DOMAIN coll : UserGenerateQuery(filters, coll[i])},
                  filters.pageNumber, filters.entryPerPage)

CategoryRepository_findAll(coll, filters) ==
    PaginatedData({i \in DOMAIN coll : CategoryGenerateQuery(filters, coll[i])},
                  filters.pageNumber, filters.entryPerPage)

\* ------------------------------------------------------------ validators
\* safeParse of the product and category schemas on the fields a payload of
\* the model carries: name is nonempty, price is positive; every field of
\* an update schema (partial()) is optional.
zCreateProductSchema(data) == data.name # NoText /\ data.price > 0

zUpdateProductSchema(data) == ~data.emptyName /\ (data.setPrice => data.price > 0)

zUpdateCategorySchema(data) == ~data.emptyName

zCreateCategorySchema(data) == data.name # NoText

\* ------------------------------------------------------------- services
\* ensureAdmin without its test: nobody is refused.
ensureAdmin_Anyone(actingUser) == TRUE

\* ServiceUtils.ensureAdmin: throws UnauthorizedError unless isAdmin.
ensureAdmin(actingUser) == actingUser.isAdmin

\* A service call yields its outcome ("ok" with val, "null", or the name of
\* the error it throws), the outcome of the repository call it made ("none"
\* when it made none) and the number of warn/error entries logged.
Outcome(op, id, actingUser, repo, out, val, logs) ==
    [op |-> op, id |-> id, actingUser |-> actingUser, repo |-> repo,
     out |-> out, val |-> val, logs |-> logs]

\* UserService.registerUser: validate, hash the password, create, log and
\* re-throw a failure
UserService_registerUser(coll, data) ==
    IF ~data.valid
    THEN [res |-> Outcome("registerUser", 0, [id |-> 0, isAdmin |-> FALSE],
                          "none", "Validation", NoDoc, 1), coll |-> coll]
    ELSE LET createData == IF data.password # NoPassword
                           THEN [data EXCEPT !.password = bcryptHash(data.password)]
                           ELSE data
             r == UserRepository_create(coll, createData) IN
         [res |-> Outcome("registerUser", 0, [id |-> 0, isAdmin |-> FALSE], r.out, r.out,
                          r.val, IF r.out = "ok" THEN 0 ELSE r.logs + 1),
          coll |-> r.coll]

\* UserService.updateUser: self or admin, validate, update, null is NotFound
UserService_updateUser(coll, id, data, actingUser) ==
    IF actingUser.id # id /\ ~actingUser.isAdmin
    THEN [res |-> Outcome("updateUser", id, actingUser, "none", "Unauthorized", NoDoc, 1),
          coll |-> coll]
    ELSE IF ~data.valid
    THEN [res |-> Outcome("updateUser", id, actingUser, "none", "Validation", NoDoc, 1),
          coll |-> coll]
    ELSE LET r == UserRepository_update(coll, id, data) IN
         [res |-> Outcome("updateUser", id, actingUser, r.out,
                          IF r.out = "null" THEN "NotFound" ELSE r.out, r.val, r.logs),
          coll |-> r.coll]

\* UserService.deleteUser: self or admin, delete, null is NotFound; the
\* promise resolves to nothing.
UserService_deleteUser(coll, id, actingUser, date) ==
    IF ~actingUser.isAdmin /\ actingUser.id # id
    THEN [res |-> Outcome("deleteUser", id, actingUser, "none", "Unauthorized", NoDoc, 1),
          coll |-> coll]
    ELSE LET r == UserRepository_delete(coll, id, date) IN
         [res |-> Outcome("deleteUser", id, actingUser, r.out,
                          IF r.out = "null" THEN "NotFound" ELSE r.out, NoDoc,
                          IF r.out = "null" THEN 1 ELSE r.logs),
          coll |-> r.coll]

\* zChangePasswordSchema: an old password, a new one that zPasswordSchema
\* accepts, confirmed, and different from the old one
StrongPasswords == {"Pw1", "Pw2"}

zChangePasswordSchema(data) ==
    /\ data.oldPassword # ""
    /\ data.newPassword \in StrongPasswords
    /\ data.newPassword = data.confirmPassword
    /\ data.oldPassword # data.newPassword

\* The first test of changePassword written as that of updateUser: an admin
\* passes for any id.
changePassword_isSelf_OrAdmin(id, actingUser) == id = actingUser.id \/ actingUser.isAdmin

\* The first test of changePassword: the caller is the user of the id.
changePassword_isSelf(id, actingUser) == id = actingUser.id

\* UserService.changePassword: self only, validate, read the active user
\* with the hash, compare the old password, store the hash of the new one
UserService_changePassword(coll, id, data, actingUser) ==
    IF ~changePassword_isSelf(id, actingUser)
    THEN [res |-> Outcome("changePassword", id, actingUser, "none", "Unauthorized", NoDoc, 1),
          coll |-> coll]
    ELSE IF ~zChangePasswordSchema(data)
    THEN [res |-> Outcome("changePassword", id, actingUser, "none", "Validation", NoDoc, 1),
          coll |-> coll]
    ELSE LET user == UserRepository_findByIdWithAuth(coll, id, [includeDeleted |-> "false"]) IN
         IF user.doc = NoDoc \/ user.doc.password = NoPassword
         THEN [res |-> Outcome("changePassword", id, actingUser, "null", "NotFound", NoDoc, 1),
               coll |-> coll]
         ELSE IF ~bcryptCompare(data.oldPassword, user.doc.password)
         THEN [res |-> Outcome("changePassword", id, actingUser, "ok", "Unauthorized",
                               NoDoc, 1),
               coll |-> coll]
         ELSE LET r == UserRepository_changePassword(coll, id, bcryptHash(data.newPassword)) IN
              [res |-> Outcome("changePassword", id, actingUser, r.out, r.out, NoDoc, r.logs),
               coll |-> r.coll]

\* authenticateUser putting no deletedAt in its query: the first user with
\* the email, tombstoned or not.
UserService_authenticateUser_lookup_AnyState(coll, email) ==
    UserRepository_findByEmailWithAuth(coll, email, [includeDeleted |-> "true"])

\* The read of authenticateUser: the active user with the email
UserService_authenticateUser_lookup(coll, email) ==
    UserRepository_findByEmailWithAuth(coll, email, [includeDeleted |-> "false"])

\* UserService.authenticateUser: read the active user of the email with the
\* hash; no user or no password is an AuthenticationError, an oauth user a
\* ValidationError, a password that does not match an AuthenticationError.
\* id is the _id of the user the call authenticates as.
UserService_authenticateUser(coll, credentials) ==
    LET user == UserService_authenticateUser_lookup(coll, credentials.email) IN
    IF user.doc = NoDoc \/ user.doc.password = NoPassword
    THEN Outcome("authenticateUser", 0, [id |-> 0, isAdmin |-> FALSE], "null",
                 "Authentication", NoDoc, 1)
    ELSE IF user.doc.provider = "oauth"
    THEN Outcome("authenticateUser", 0, [id |-> 0, isAdmin |-> FALSE], "ok",
                 "Validation", NoDoc, 1)
    ELSE IF ~bcryptCompare(credentials.password, user.doc.password)
    THEN Outcome("authenticateUser", 0, [id |-> 0, isAdmin |-> FALSE], "ok",
                 "Authentication", NoDoc, 1)
    ELSE Outcome("authenticateUser", user.id, [id |-> 0, isAdmin |-> FALSE], "ok", "ok",
                 user.doc, 0)

\* findOrCreateUserFromProvider, the read: the active user with the email
UserService_findOrCreateUserFromProvider_find(coll, data) ==
    UserRepository_findByEmail(coll, data.email, [includeDeleted |-> "false"])

\* findOrCreateUserFromProvider, the insert when the read found nobody: an
\* oauth user with an empty password, given to the repository as it is.
UserService_findOrCreateUserFromProvider_create(coll, data) ==
    UserRepository_create(coll,
        [email |-> data.email, password |-> NoPassword, provider |-> "oauth"])

\* UserService.findOrCreateUserFromProvider as one call.  id is the _id of
\* the user returned.
UserService_findOrCreateUserFromProvider(coll, data) ==
    LET existingUser == UserService_findOrCreateUserFromProvider_find(coll, data) IN
    IF existingUser.doc # NoDoc
    THEN [res |-> Outcome("findOrCreateUserFromProvider", existingUser.id,
                          [id |-> 0, isAdmin |-> FALSE], "ok", "ok", existingUser.doc, 0),
          coll |-> coll]
    ELSE LET r == UserService_findOrCreateUserFromProvider_create(coll, data) IN
         [res |-> Outcome("findOrCreateUserFromProvider",
                          IF r.out = "ok" THEN Len(r.coll) ELSE 0,
                          [id |-> 0, isAdmin |-> FALSE], r.out, r.out, r.val, r.logs),
          coll |-> r.coll]

\* UserService.deleteUser over the delete of repositories/userRepository.ts
LegacyUserService_deleteUser(coll, id, actingUser) ==
    IF ~actingUser.isAdmin /\ actingUser.id # id
    THEN [res |-> Outcome("deleteUser", id, actingUser, "none", "Unauthorized", NoDoc, 1),
          coll |-> coll]
    ELSE LET r == LegacyUserRepository_delete(coll, id) IN
         [res |-> Outcome("deleteUser", id, actingUser, r.out,
                          IF r.out = "null" THEN "NotFound" ELSE r.out, NoDoc,
                          IF r.out = "null" THEN 1 ELSE r.logs),
          coll |-> r.coll]

\* ProductService.createProduct: admin only; the slug comes from the name
ProductService_createProduct(coll, data, actingUser) ==
    IF ~ensureAdmin(actingUser)
    THEN [res |-> Outcome("createProduct", 0, actingUser, "none", "Unauthorized", NoDoc, 1),
          coll |-> coll]
    ELSE LET r == ProductRepository_create(coll,
                      [data EXCEPT !.slug = generateSlug(data.name)]) IN
         [res |-> Outcome("createProduct", 0, actingUser, r.out, r.out, r.val, r.logs),
          coll |-> r.coll]

\* ProductService.updateProduct: admin only; a patch with a name gets the
\* slug of that name; the repository's result is returned as it is.
ProductService_updateProduct(coll, id, data, actingUser) ==
    IF ~ensureAdmin(actingUser)
    THEN [res |-> Outcome("updateProduct", id, actingUser, "none", "Unauthorized", NoDoc, 1),
          coll |-> coll]
    ELSE LET patch == IF data.name # NoText
                      THEN [data EXCEPT !.slug = generateSlug(data.name)]
                      ELSE data
             r == ProductRepository_update(coll, id, patch) IN
         [res |-> Outcome("updateProduct", id, actingUser, r.out, r.out, r.val, r.logs),
          coll |-> r.coll]

ProductService_deleteProduct(coll, id, actingUser, date) ==
    IF ~ensureAdmin(actingUser)
    THEN [res |-> Outcome("deleteProduct", id, actingUser, "none", "Unauthorized", NoDoc, 1),
          coll |-> coll]
    ELSE LET r == ProductRepository_delete(coll, id, date) IN
         [res |-> Outcome("deleteProduct", id, actingUser, r.out, r.out, r.val, r.logs),
          coll |-> r.coll]

ProductService_restoreProduct(coll, id, actingUser) ==
    IF ~ensureAdmin(actingUser)
    THEN [res |-> Outcome("restoreProduct", id, actingUser, "none", "Unauthorized", NoDoc, 1),
          coll |-> coll]
    ELSE LET r == ProductRepository_restore(coll, id) IN
         [res |-> Outcome("restoreProduct", id, actingUser, r.out, r.out, r.val, r.logs),
          coll |-> r.coll]

\* CategoryService.createCategory: admin only; the slug comes from the name
CategoryService_createCategory(coll, data, actingUser) ==
    IF ~ensureAdmin(actingUser)
    THEN [res |-> Outcome("createCategory", 0, actingUser, "none", "Unauthorized", NoDoc, 1),
          coll |-> coll]
    ELSE LET r == CategoryRepository_create(coll,
                      [data EXCEPT !.slug = generateSlug(data.name)]) IN
         [res |-> Outcome("createCategory", 0, actingUser, r.out, r.out, r.val, r.logs),
          coll |-> r.coll]

\* CategoryService.updateCategory: admin only; null is NotFound
CategoryService_updateCategory(coll, id, data, actingUser) ==
    IF ~ensureAdmin(actingUser)
    THEN [res |-> Outcome("updateCategory", id, actingUser, "none", "Unauthorized", NoDoc, 1),
          coll |-> coll]
    ELSE LET patch == IF data.name # NoText
                      THEN [data EXCEPT !.slug = generateSlug(data.name)]
                      ELSE data
             r == CategoryRepository_update(coll, id, patch) IN
         [res |-> Outcome("updateCategory", id, actingUser, r.out,
                          IF r.out = "null" THEN "NotFound" ELSE r.out, r.val, r.logs),
          coll |-> r.coll]

\* The product scan of deleteCategory: every product of the category, the
\* tombstoned ones included, first page of ten.
CategoryDeletePageSize == 10

\* The scan without includeDeleted: true: tombstoned products are not seen.
CategoryService_deleteCategory_scan_ActiveOnly(prods, id) ==
    ProductRepository_findAll(prods,
        [categoryId |-> id, pageNumber |-> 1, entryPerPage |-> CategoryDeletePageSize,
         includeDeleted |-> "false"])

CategoryService_deleteCategory_scan(prods, id) ==
    ProductRepository_findAll(prods,
        [categoryId |-> id, pageNumber |-> 1, entryPerPage |-> CategoryDeletePageSize,
         includeDeleted |-> "true"])

\* CategoryService.deleteCategory: admin only; Conflict when the scan finds
\* a product; then delete, null is NotFound.
CategoryService_deleteCategory(coll, prods, id, actingUser, date) ==
    IF ~ensureAdmin(actingUser)
    THEN [res |-> Outcome("deleteCategory", id, actingUser, "none", "Unauthorized", NoDoc, 1),
          coll |-> coll]
    ELSE IF Len(CategoryService_deleteCategory_scan(prods, id).data) > 0
    THEN [res |-> Outcome("deleteCategory", id, actingUser, "none", "Conflict", NoDoc, 1),
          coll |-> coll]
    ELSE LET r == CategoryRepository_delete(coll, id, date) IN
         [res |-> Outcome("deleteCategory", id, actingUser, r.out,
                          IF r.out = "null" THEN "NotFound" ELSE r.out, r.val, r.logs),
          coll |-> r.coll]

\* CategoryService.restoreCategory: admin only; null is NotFound
CategoryService_restoreCategory(coll, id, actingUser, strictQuery) ==
    IF ~ensureAdmin(actingUser)
    THEN [res |-> Outcome("restoreCategory", id, actingUser, "none", "Unauthorized", NoDoc, 1),
          coll |-> coll]
    ELSE LET r == CategoryRepository_restore(coll, id, strictQuery) IN
         [res |-> Outcome("restoreCategory", id, actingUser, r.out,
                          IF r.out = "null" THEN "NotFound" ELSE r.out, r.val, r.logs),
          coll |-> r.coll]

\* The data object of the caller as createCategory, updateCategory and
\* updateProduct leave it: they assign data.slug on the object they were
\* given, after ensureAdmin; createProduct spreads data into a new object.
CategoryService_createCategory_data(data, actingUser) ==
    IF ~ensureAdmin(actingUser) THEN data
    ELSE [data EXCEPT !.slug = generateSlug(data.name)]

CategoryService_updateCategory_data(data, actingUser) ==
    IF ~ensureAdmin(actingUser) \/ data.name = NoText THEN data
    ELSE [data EXCEPT !.slug = generateSlug(data.name)]

ProductService_updateProduct_data(data, actingUser) ==
    IF ~ensureAdmin(actingUser) \/ data.name = NoText THEN data
    ELSE [data EXCEPT !.slug = generateSlug(data.name)]

ProductService_createProduct_data(data, actingUser) == data

\* ------------------------------------------------------- read services
\* A list service yields, besides its outcome, the filters object as the
\* call leaves it: the services write their default into the caller's object.
Listing(res, filters) == [res |-> res, filters |-> filters]

\* findUserById without its authorization test.
UserService_findUserById_Open(coll, id, actingUser) ==
    LET user == UserRepository_findById(coll, id, [includeDeleted |-> "true"]) IN
    IF user.doc = NoDoc
    THEN Outcome("findUserById", id, actingUser, "null", "NotFound", NoDoc, 0)
    ELSE Outcome("findUserById", id, actingUser, "ok", "ok", user.doc, 0)

\* UserService.findUserById: self or admin; always reads with
\* includeDeleted: true; null is NotFound
UserService_findUserById(coll, id, actingUser) ==
    IF actingUser.id # id /\ ~actingUser.isAdmin
    THEN Outcome("findUserById", id, actingUser, "none", "Unauthorized", NoDoc, 1)
    ELSE LET user == UserRepository_findById(coll, id, [includeDeleted |-> "true"]) IN
         IF user.doc = NoDoc
         THEN Outcome("findUserById", id, actingUser, "null", "NotFound", NoDoc, 0)
         ELSE Outcome("findUserById", id, actingUser, "ok", "ok", user.doc, 0)

\* UserService.findUserByEmail: admin only; always reads with
\* includeDeleted: true; null is NotFound.  id is the _id of the user found.
UserService_findUserByEmail(coll, email, actingUser) ==
    IF ~actingUser.isAdmin
    THEN Outcome("findUserByEmail", 0, actingUser, "none", "Unauthorized", NoDoc, 1)
    ELSE LET user == UserRepository_findByEmail(coll, email, [includeDeleted |-> "true"]) IN
         IF user.doc = NoDoc
         THEN Outcome("findUserByEmail", 0, actingUser, "null", "NotFound", NoDoc, 0)
         ELSE Outcome("findUserByEmail", user.id, actingUser, "ok", "ok", user.doc, 0)

\* UserService.findAllUsers: admin only; an undefined includeDeleted becomes
\* true in the caller's filters
UserService_findAllUsers(coll, filters, actingUser) ==
    IF ~ensureAdmin(actingUser)
    THEN Listing(Outcome("findAllUsers", 0, actingUser, "none", "Unauthorized", NoDoc, 1),
                 filters)
    ELSE LET f == IF filters.includeDeleted = "undefined"
                  THEN [filters EXCEPT !.includeDeleted = "true"]
                  ELSE filters IN
         Listing(Outcome("findAllUsers", 0, actingUser, "ok", "ok",
                         UserRepository_findAll(coll, f), 0), f)

\* ProductService.findProductById / findProductBySlug / findProductByName:
\* any caller; includeDeleted is the caller's isAdmin; null is NotFound
\* findProductById without its null test: the repository's null goes back.
ProductService_findProductById_Null(coll, id, actingUser) ==
    LET product == ProductRepository_findById(coll, id,
                       [includeDeleted |-> IF actingUser.isAdmin THEN "true" ELSE "false"]) IN
    IF product.doc = NoDoc
    THEN Outcome("findProductById", id, actingUser, "null", "null", NoDoc, 0)
    ELSE Outcome("findProductById", id, actingUser, "ok", "ok", product.doc, 0)

ProductService_findProductById(coll, id, actingUser) ==
    LET product == ProductRepository_findById(coll, id,
                       [includeDeleted |-> IF actingUser.isAdmin THEN "true" ELSE "false"]) IN
    IF product.doc = NoDoc
    THEN Outcome("findProductById", id, actingUser, "null", "NotFound", NoDoc, 0)
    ELSE Outcome("findProductById", id, actingUser, "ok", "ok", product.doc, 0)

ProductService_findProductBySlug(coll, slug, actingUser) ==
    LET product == ProductRepository_findBySlug(coll, slug,
                       [includeDeleted |-> IF actingUser.isAdmin THEN "true" ELSE "false"]) IN
    IF product.doc = NoDoc
    THEN Outcome("findProductBySlug", 0, actingUser, "null", "NotFound", NoDoc, 0)
    ELSE Outcome("findProductBySlug", product.id, actingUser, "ok", "ok", product.doc, 0)

ProductService_findProductByName(coll, name, actingUser) ==
    LET product == ProductRepository_findByName(coll, name,
                       [includeDeleted |-> IF actingUser.isAdmin THEN "true" ELSE "false"]) IN
    IF product.doc = NoDoc
    THEN Outcome("findProductByName", 0, actingUser, "null", "NotFound", NoDoc, 0)
    ELSE Outcome("findProductByName", product.id, actingUser, "ok", "ok", product.doc, 0)

\* ProductService.findAllProducts: any caller; for an admin an undefined
\* includeDeleted becomes true; the filters of another caller go as they are
ProductService_findAllProducts(coll, filters, actingUser) ==
    LET f == IF actingUser.isAdmin /\ filters.includeDeleted = "undefined"
             THEN [filters EXCEPT !.includeDeleted = "true"]
             ELSE filters IN
    Listing(Outcome("findAllProducts", 0, actingUser, "ok", "ok",
                    ProductRepository_findAll(coll, f), 0), f)

\* CategoryService.findCategoryById: any caller; the includeDeleted of the
\* options is overwritten with the caller's isAdmin; null is NotFound
CategoryService_findCategoryById(coll, id, options, actingUser) ==
    LET category == CategoryRepository_findById(coll, id,
                        [options EXCEPT !.includeDeleted =
                                            IF actingUser.isAdmin THEN "true" ELSE "false"]) IN
    IF category.doc = NoDoc
    THEN Outcome("findCategoryById", id, actingUser, "null", "NotFound", NoDoc, 0)
    ELSE Outcome("findCategoryById", id, actingUser, "ok", "ok", category.doc, 0)

\* CategoryService.findCategoryBySlug: calls categoryRepository.findBySlug,
\* which the category repository does not define: the call throws a
\* TypeError and no record comes back.
CategoryService_findCategoryBySlug(coll, slug, options, actingUser) ==
    Outcome("findCategoryBySlug", 0, actingUser, "none", "TypeError", NoDoc, 0)

\* CategoryService.findAllCategories: includeDeleted is forced to false for
\* a caller who is not an admin; for an admin undefined becomes true
CategoryService_findAllCategories(coll, filters, actingUser) ==
    LET g == IF ~actingUser.isAdmin
             THEN [filters EXCEPT !.includeDeleted = "false"]
             ELSE filters
        f == IF actingUser.isAdmin /\ g.includeDeleted = "undefined"
             THEN [g EXCEPT !.includeDeleted = "true"]
             ELSE g IN
    Listing(Outcome("findAllCategories", 0, actingUser, "ok", "ok",
                    CategoryRepository_findAll(coll, f), 0), f)

\* ---------------------------------------------------------------- state
\* scen       the deployment under test: the collections the requests
\*            address and the strictQuery option of the mongoose build.
\*            The user collection shares no state with the catalog; in the
\*            catalog only the delete guard of a category reads the products.
\*              "user"      requests on users
\*              "product"   requests on products, three names, one category
\*              "category"  requests on categories, three names, no product
\*              "guard"     requests on categories and on products, one name
\*                          each, products assigned to any category
\*            In SpecAccess, where reads and password changes are called:
\*              "account"        requests on users, one email
\*              "productReads"   requests on products, one name
\*              "categoryReads"  requests on categories, one name
\*            In SpecLegacy, "legacy": requests on users of a build whose
\*            user service is given the repository of userRepository.ts.
\*            In SpecSignIn, "signIn": requests on users, sign-ins with
\*            credentials among them, one email in two spellings.
\*            In SpecProvider, "provider": requests on users and sign-ins
\*            of a Google account that interleave.
\*            In SpecGuard, "guardRace": deleteCategory in its two store
\*            calls, with requests on products and categories between them.
\*            In SpecLifecycle, "userLifecycle", "productLifecycle" and
\*            "categoryLifecycle": create, delete and restore on one
\*            collection, one email or name, two instants, with the
\*            updatedAt of the schemas that have timestamps.
\* users, products, categories   the three collections
\* last       operation, target id and outcome of the call that completed
\*            last in Spec; a read of SpecAccess adds the role of the caller,
\*            the includeDeleted it passed and how many tombstoned documents
\*            it got back
\* procs      the calls in flight in SpecRace
vars == <<scen, users, products, categories, last, procs>>

Scenarios ==
    { [scope |-> s, strictQuery |-> FALSE, race |-> FALSE] :
          s \in {"user", "product", "category", "guard"} }
        \cup { [scope |-> "category", strictQuery |-> TRUE, race |-> FALSE] }

\* The deployments of SpecRace: requests that interleave, on a smaller
\* universe of emails, names and dates.
RaceScenarios ==
    { [scope |-> s, strictQuery |-> FALSE, race |-> TRUE] :
          s \in {"user", "product", "category"} }
        \cup { [scope |-> "category", strictQuery |-> TRUE, race |-> TRUE] }

\* The deployments of SpecAccess.
AccessScenarios ==
    { [scope |-> s, strictQuery |-> FALSE, race |-> FALSE] :
          s \in {"account", "productReads", "categoryReads"} }

LegacyScenarios == { [scope |-> "legacy", strictQuery |-> FALSE, race |-> FALSE] }

\* The deployments of SpecSignIn and of SpecProvider.
SignInScenarios == { [scope |-> "signIn", strictQuery |-> FALSE, race |-> FALSE] }

ProviderScenarios == { [scope |-> "provider", strictQuery |-> FALSE, race |-> FALSE] }

\* The deployment of SpecGuard.
GuardScenarios == { [scope |-> "guardRace", strictQuery |-> FALSE, race |-> FALSE] }

\* The deployments of SpecLifecycle.
LifecycleScopes == {"userLifecycle", "productLifecycle", "categoryLifecycle"}

LifecycleScenarios ==
    { [scope |-> s, strictQuery |-> FALSE, race |-> FALSE] : s \in LifecycleScopes }
        \cup { [scope |-> "categoryLifecycle", strictQuery |-> TRUE, race |-> FALSE] }

\* The deployment of SpecPaging.
PagingScenarios == { [scope |-> "paging", strictQuery |-> FALSE, race |-> FALSE] }

Nobody == [id |-> 0, isAdmin |-> FALSE]

\* new Date(): some instant that is not null
Dates ==
    IF scen.race THEN {1}
    ELSE IF scen.scope \in LifecycleScopes THEN 1..(MaxTime + 1)
    ELSE 1..MaxTime

\* The ids a request may name: every stored document and one absent id.
Ids(coll) == 1..(Len(coll) + 1)

\* ---------------------------------------------------------------- inputs
AllEmails == { <<"a">>, <<"A">>, <<"b">> }
AllNames == { <<"C", "h">>, <<"c", "h", "!">>, <<"d", " ", "k">> }
TwoNames == { <<"C", "h">>, <<"c", "h", "!">> }
OneName == { <<"C", "h">> }

EmailInputs ==
    IF scen.race THEN { <<"a">>, <<"A">> }
    ELSE IF scen.scope = "account" THEN { <<"a">> }
    ELSE IF scen.scope \in {"signIn", "provider", "userLifecycle"} THEN { <<"a">> }
    ELSE AllEmails
PhoneInputs ==
    IF scen.scope \in {"account", "signIn", "provider", "userLifecycle"} THEN { "p1" }
    ELSE { "p1", "p2" }
NameInputs == IF scen.race THEN TwoNames ELSE AllNames

PagingNames == { <<"C", "h">>, <<"d", " ", "k">> }
ProductNames ==
    IF scen.scope = "product" THEN NameInputs
    ELSE IF scen.scope = "paging" THEN PagingNames
    ELSE OneName
ProductCategoryIds ==
    IF scen.scope \in {"product", "paging", "productLifecycle"} THEN {1}
    ELSE 1..MaxCategories
CategoryNames ==
    IF scen.scope = "category" THEN NameInputs
    ELSE IF scen.scope = "categoryReads" THEN OneName \cup {NoText}
    ELSE OneName
\* A price the product schema accepts (1) and, where validation is under
\* test, one it does not (0).
PriceInputs == IF scen.scope = "productReads" THEN {0, 1} ELSE {1}

UserActors == [id : 1..MaxUsers, isAdmin : BOOLEAN]
CatalogActors == [id : {1}, isAdmin : BOOLEAN]

PasswordInputs ==
    IF scen.scope \in {"account", "signIn"} THEN {"Pw1", NoPassword} ELSE {"Pw1"}
\* A registration names its provider: "credentials" comes with a password;
\* an "oauth" registration has none, or, where sign-in is under test, one.
OAuthPasswords ==
    {NoPassword} \cup (IF scen.scope = "signIn" THEN PasswordInputs ELSE {})
RegisterInputs ==
    [email : EmailInputs, password : PasswordInputs \ {NoPassword},
     provider : {"credentials"}, valid : BOOLEAN]
        \cup [email : EmailInputs, password : PasswordInputs \cap OAuthPasswords,
              provider : {"oauth"}, valid : BOOLEAN]
UserPatches ==
    [email : EmailInputs \cup {NoText}, phoneNumber : PhoneInputs \cup {NoPhone},
     valid : {TRUE}]
        \cup { [email |-> NoText, phoneNumber |-> NoPhone, valid |-> FALSE] }
\* Whether a patch may carry name: "": where the reads are under test.
EmptyNames == IF scen.scope \in {"productReads", "categoryReads"} THEN {TRUE} ELSE {}
ProductInputs ==
    [name : ProductNames, slug : {NoText}, categoryId : ProductCategoryIds,
     price : PriceInputs]
ProductPatches ==
    [name : ProductNames \cup {NoText},
     slug : { generateSlug(n) : n \in ProductNames } \cup {NoText},
     categoryId : ProductCategoryIds \cup {NoCategory},
     setPrice : {FALSE}, price : {1}, emptyName : {FALSE}]
        \cup [name : {NoText}, slug : {NoText}, categoryId : {NoCategory},
              setPrice : {TRUE}, price : PriceInputs \ {1}, emptyName : {FALSE}]
        \cup [name : {NoText}, slug : { generateSlug(n) : n \in ProductNames },
              categoryId : {NoCategory}, setPrice : {FALSE}, price : {1},
              emptyName : EmptyNames]
CategoryInputs == [name : CategoryNames, slug : {NoText}, deletedAt : {NullDate} \cup Dates]
CategoryPatches ==
    [name : CategoryNames \cup {NoText},
     slug : { generateSlug(n) : n \in CategoryNames } \cup {NoText},
     setDeletedAt : {FALSE}, deletedAt : {NullDate}, emptyName : {FALSE}]
        \cup [name : {NoText}, slug : {NoText},
              setDeletedAt : {TRUE}, deletedAt : {NullDate} \cup Dates, emptyName : {FALSE}]
        \cup [name : {NoText}, slug : { generateSlug(n) : n \in CategoryNames },
              setDeletedAt : {FALSE}, deletedAt : {NullDate}, emptyName : EmptyNames]

\* The filters of a list request: first page, and the three ways a caller
\* can fill includeDeleted.
EntryPerPage == 10
Flags == {"true", "false", "undefined"}
ListFilters == [pageNumber : {1}, entryPerPage : {EntryPerPage}, includeDeleted : Flags]
ProductListFilters ==
    [pageNumber : {1}, entryPerPage : {EntryPerPage}, includeDeleted : Flags,
     categoryId : {NoCategory}]
FindOptions == [includeDeleted : Flags]

ChangePasswordInputs ==
    [oldPassword : {"Pw1", "Pw2"}, newPassword : {"Pw1", "Pw2"}, confirmPassword : {"Pw2"}]

\* ensureAdmin returns before the payload is read: one payload stands for
\* all the payloads of a caller who is not an admin.
PayloadsOf(actingUser, payloads) ==
    IF actingUser.isAdmin THEN payloads ELSE {CHOOSE d \in payloads : TRUE}

Procs == {"p", "q"}

\* A request in flight: where it stands (pc), the id it restores, the
\* document its first read returned (seen), and, once it has returned, what
\* the caller got (out) and the error code of a write the store rejected.
Idle == [pc |-> "idle", id |-> 0, seen |-> NoDoc, out |-> "none", err |-> 0]

Init ==
    /\ scen \in Scenarios
    /\ users = << >>
    /\ products = << >>
    /\ categories = << >>
    /\ last = [op |-> "none", id |-> 0, out |-> "none"]
    /\ procs = [p \in Procs |-> Idle]

\* The call has returned: record what the caller got.
Completed(res) == last' = [op |-> res.op, id |-> res.id, out |-> res.out]

OnUsers == scen.scope \in {"user", "account", "legacy", "signIn", "provider", "userLifecycle"}
OnProducts ==
    scen.scope \in {"product", "guard", "productReads", "paging", "productLifecycle",
                    "guardRace"}
OnCategories ==
    scen.scope \in {"category", "guard", "categoryReads", "categoryLifecycle", "guardRace"}

\* ------------------------------------------------------- calls on users
RegisterUser(data) ==
    /\ OnUsers
    /\ LET c == UserService_registerUser(users, data) IN
       /\ Len(c.coll) <= MaxUsers
       /\ users' = c.coll
       /\ Completed(c.res)
    /\ UNCHANGED <<scen, products, categories, procs>>

UpdateUser(id, data, actingUser) ==
    /\ OnUsers
    /\ LET c == UserService_updateUser(users, id, data, actingUser) IN
       /\ users' = c.coll
       /\ Completed(c.res)
    /\ UNCHANGED <<scen, products, categories, procs>>

DeleteUser(id, actingUser, date) ==
    /\ OnUsers
    /\ LET c == UserService_deleteUser(users, id, actingUser, date) IN
       /\ users' = c.coll
       /\ Completed(c.res)
    /\ UNCHANGED <<scen, products, categories, procs>>

\* UserRepository.restore, called directly: no service wraps it
RestoreUser(id) ==
    /\ OnUsers
    /\ LET r == UserRepository_restore(users, id) IN
       /\ users' = r.coll
       /\ Completed(Outcome("restoreUser", id, Nobody, r.out, r.out, r.val, r.logs))
    /\ UNCHANGED <<scen, products, categories, procs>>

\* --------------------------------------------------- calls on the catalog
CreateProduct(data, actingUser) ==
    /\ OnProducts
    /\ LET c == ProductService_createProduct(products, data, actingUser) IN
       /\ Len(c.coll) <= MaxProducts
       /\ products' = c.coll
       /\ Completed(c.res)
    /\ UNCHANGED <<scen, users, categories, procs>>

UpdateProduct(id, data, actingUser) ==
    /\ OnProducts
    /\ LET c == ProductService_updateProduct(products, id, data, actingUser) IN
       /\ products' = c.coll
       /\ Completed(c.res)
    /\ UNCHANGED <<scen, users, categories, procs>>

DeleteProduct(id, actingUser, date) ==
    /\ OnProducts
    /\ LET c == ProductService_deleteProduct(products, id, actingUser, date) IN
       /\ products' = c.coll
       /\ Completed(c.res)
    /\ UNCHANGED <<scen, users, categories, procs>>

RestoreProduct(id, actingUser) ==
    /\ OnProducts
    /\ LET c == ProductService_restoreProduct(products, id, actingUser) IN
       /\ products' = c.coll
       /\ Completed(c.res)
    /\ UNCHANGED <<scen, users, categories, procs>>

CreateCategory(data, actingUser) ==
    /\ OnCategories
    /\ LET c == CategoryService_createCategory(categories, data, actingUser) IN
       /\ Len(c.coll) <= MaxCategories
       /\ categories' = c.coll
       /\ Completed(c.res)
    /\ UNCHANGED <<scen, users, products, procs>>

UpdateCategory(id, data, actingUser) ==
    /\ OnCategories
    /\ LET c == CategoryService_updateCategory(categories, id, data, actingUser) IN
       /\ categories' = c.coll
       /\ Completed(c.res)
    /\ UNCHANGED <<scen, users, products, procs>>

DeleteCategory(id, actingUser, date) ==
    /\ OnCategories
    /\ LET c == CategoryService_deleteCategory(categories, products, id, actingUser, date) IN
       /\ categories' = c.coll
       /\ Completed(c.res)
    /\ UNCHANGED <<scen, users, products, procs>>

RestoreCategory(id, actingUser) ==
    /\ OnCategories
    /\ LET c == CategoryService_restoreCategory(categories, id, actingUser, scen.strictQuery) IN
       /\ categories' = c.coll
       /\ Completed(c.res)
    /\ UNCHANGED <<scen, users, products, procs>>

Next ==
    \/ \E data \in RegisterInputs : RegisterUser(data)
    \/ \E id \in Ids(users), data \in UserPatches, a \in UserActors : UpdateUser(id, data, a)
    \/ \E id \in Ids(users), a \in UserActors, date \in Dates : DeleteUser(id, a, date)
    \/ \E id \in Ids(users) : RestoreUser(id)
    \/ \E a \in CatalogActors : \E data \in PayloadsOf(a, ProductInputs) :
           CreateProduct(data, a)
    \/ \E id \in Ids(products), a \in CatalogActors :
           \E data \in PayloadsOf(a, ProductPatches) : UpdateProduct(id, data, a)
    \/ \E id \in Ids(products), a \in CatalogActors, date \in Dates : DeleteProduct(id, a, date)
    \/ \E id \in Ids(products), a \in CatalogActors : RestoreProduct(id, a)
    \/ \E a \in CatalogActors : \E data \in PayloadsOf(a, CategoryInputs) :
           CreateCategory(data, a)
    \/ \E id \in Ids(categories), a \in CatalogActors :
           \E data \in PayloadsOf(a, CategoryPatches) : UpdateCategory(id, data, a)
    \/ \E id \in Ids(categories), a \in CatalogActors, date \in Dates :
           DeleteCategory(id, a, date)
    \/ \E id \in Ids(categories), a \in CatalogActors : RestoreCategory(id, a)

Spec == Init /\ [][Next]_vars

\* ----------------------------------------- reads and password changes
\* A read has returned: record what the caller got, who the caller was, the
\* includeDeleted passed ("undefined" when the call has no such argument or
\* the caller left it out) and the number of tombstoned documents returned.
Fetched(res, includeDeleted, tombstones) ==
    last' = [op |-> res.op, id |-> res.id, out |-> res.out, actingUser |-> res.actingUser,
             includeDeleted |-> includeDeleted, tombstones |-> tombstones]

\* The number of tombstoned documents in what a read returned
TombstonesIn(coll, res) ==
    IF res.out # "ok" THEN 0
    ELSE IF "data" \in DOMAIN res.val
    THEN Cardinality({k \in 1..Len(res.val.data) : coll[res.val.data[k]].deletedAt # NullDate})
    ELSE IF res.val.deletedAt # NullDate THEN 1 ELSE 0

ChangePassword(id, data, actingUser) ==
    /\ OnUsers
    /\ LET c == UserService_changePassword(users, id, data, actingUser) IN
       /\ users' = c.coll
       /\ Fetched(c.res, "undefined", 0)
    /\ UNCHANGED <<scen, products, categories, procs>>

FindUserById(id, actingUser) ==
    /\ OnUsers
    /\ LET res == UserService_findUserById(users, id, actingUser) IN
       Fetched(res, "undefined", TombstonesIn(users, res))
    /\ UNCHANGED <<scen, users, products, categories, procs>>

FindUserByEmail(email, actingUser) ==
    /\ OnUsers
    /\ LET res == UserService_findUserByEmail(users, email, actingUser) IN
       Fetched(res, "undefined", TombstonesIn(users, res))
    /\ UNCHANGED <<scen, users, products, categories, procs>>

FindAllUsers(filters, actingUser) ==
    /\ OnUsers
    /\ LET res == UserService_findAllUsers(users, filters, actingUser).res IN
       Fetched(res, filters.includeDeleted, TombstonesIn(users, res))
    /\ UNCHANGED <<scen, users, products, categories, procs>>

FindProductById(id, actingUser) ==
    /\ OnProducts
    /\ LET res == ProductService_findProductById(products, id, actingUser) IN
       Fetched(res, "undefined", TombstonesIn(products, res))
    /\ UNCHANGED <<scen, users, products, categories, procs>>

FindProductBySlug(slug, actingUser) ==
    /\ OnProducts
    /\ LET res == ProductService_findProductBySlug(products, slug, actingUser) IN
       Fetched(res, "undefined", TombstonesIn(products, res))
    /\ UNCHANGED <<scen, users, products, categories, procs>>

FindProductByName(name, actingUser) ==
    /\ OnProducts
    /\ LET res == ProductService_findProductByName(products, name, actingUser) IN
       Fetched(res, "undefined", TombstonesIn(products, res))
    /\ UNCHANGED <<scen, users, products, categories, procs>>

FindAllProducts(filters, actingUser) ==
    /\ OnProducts
    /\ LET res == ProductService_findAllProducts(products, filters, actingUser).res IN
       Fetched(res, filters.includeDeleted, TombstonesIn(products, res))
    /\ UNCHANGED <<scen, users, products, categories, procs>>

FindCategoryById(id, options, actingUser) ==
    /\ OnCategories
    /\ LET res == CategoryService_findCategoryById(categories, id, options, actingUser) IN
       Fetched(res, options.includeDeleted, TombstonesIn(categories, res))
    /\ UNCHANGED <<scen, users, products, categories, procs>>

FindAllCategories(filters, actingUser) ==
    /\ OnCategories
    /\ LET res == CategoryService_findAllCategories(categories, filters, actingUser).res IN
       Fetched(res, filters.includeDeleted, TombstonesIn(categories, res))
    /\ UNCHANGED <<scen, users, products, categories, procs>>

InitAccess ==
    /\ scen \in AccessScenarios
    /\ users = << >>
    /\ products = << >>
    /\ categories = << >>
    /\ last = [op |-> "none", id |-> 0, out |-> "none"]
    /\ procs = [p \in Procs |-> Idle]

NextAccess ==
    \/ \E data \in RegisterInputs : RegisterUser(data)
    \/ \E id \in Ids(users), data \in UserPatches, a \in UserActors : UpdateUser(id, data, a)
    \/ \E id \in Ids(users), a \in UserActors, date \in Dates : DeleteUser(id, a, date)
    \/ \E id \in Ids(users), data \in ChangePasswordInputs, a \in UserActors :
           ChangePassword(id, data, a)
    \/ \E id \in Ids(users), a \in UserActors : FindUserById(id, a)
    \/ \E email \in EmailInputs, a \in UserActors : FindUserByEmail(email, a)
    \/ \E filters \in ListFilters, a \in UserActors : FindAllUsers(filters, a)
    \/ \E a \in CatalogActors : \E data \in PayloadsOf(a, ProductInputs) :
           CreateProduct(data, a)
    \/ \E id \in Ids(products), a \in CatalogActors :
           \E data \in PayloadsOf(a, ProductPatches) : UpdateProduct(id, data, a)
    \/ \E id \in Ids(products), a \in CatalogActors, date \in Dates : DeleteProduct(id, a, date)
    \/ \E id \in Ids(products), a \in CatalogActors : FindProductById(id, a)
    \/ \E n \in ProductNames, a \in CatalogActors : FindProductBySlug(generateSlug(n), a)
    \/ \E n \in ProductNames, a \in CatalogActors : FindProductByName(n, a)
    \/ \E filters \in ProductListFilters, a \in CatalogActors : FindAllProducts(filters, a)
    \/ \E a \in CatalogActors : \E data \in PayloadsOf(a, CategoryInputs) :
           CreateCategory(data, a)
    \/ \E id \in Ids(categories), a \in CatalogActors :
           \E data \in PayloadsOf(a, CategoryPatches) : UpdateCategory(id, data, a)
    \/ \E id \in Ids(categories), a \in CatalogActors, date \in Dates :
           DeleteCategory(id, a, date)
    \/ \E id \in Ids(categories), options \in FindOptions, a \in CatalogActors :
           FindCategoryById(id, options, a)
    \/ \E filters \in ListFilters, a \in CatalogActors : FindAllCategories(filters, a)

SpecAccess == InitAccess /\ [][NextAccess]_vars

\* ------------------------------------------- the earlier user repository
LegacyDeleteUser(id, actingUser) ==
    /\ OnUsers
    /\ LET c == LegacyUserService_deleteUser(users, id, actingUser) IN
       /\ users' = c.coll
       /\ Completed(c.res)
    /\ UNCHANGED <<scen, products, categories, procs>>

InitLegacy ==
    /\ scen \in LegacyScenarios
    /\ users = << >>
    /\ products = << >>
    /\ categories = << >>
    /\ last = [op |-> "none", id |-> 0, out |-> "none"]
    /\ procs = [p \in Procs |-> Idle]

NextLegacy ==
    \/ \E data \in RegisterInputs : RegisterUser(data)
    \/ \E id \in Ids(users), data \in UserPatches, a \in UserActors : UpdateUser(id, data, a)
    \/ \E id \in Ids(users), a \in UserActors : LegacyDeleteUser(id, a)

SpecLegacy == InitLegacy /\ [][NextLegacy]_vars

\* ------------------------------------------------------ paged listings
\* findAll awaits Promise.all of countDocuments(query) and of the find: two
\* reads of the collection, in either order, with room for a write of
\* another request between them.  One listing is in flight at a time.
\* Pages are scaled to the stores of the model: a page holds PageSize
\* records, and a request names one of the pages 1..MaxPage.
PageSize == 1
MaxPage == 2

PagingFilters ==
    [pageNumber : 1..MaxPage, entryPerPage : {PageSize}, includeDeleted : {"false"},
     categoryId : {NoCategory}]

\* The listing has returned: what the caller got, and whether the value of
\* the first read was still the value of that read when the second ran.
Listed(filters, page, stale) ==
    /\ last' = [op |-> "findAll", id |-> 0, out |-> "ok", filters |-> filters,
                page |-> page, stale |-> stale]
    /\ procs' = [procs EXCEPT !["p"] = Idle]

\* countDocuments(query) resolves first
FindAllCountFirst(filters) ==
    /\ scen.scope = "paging" /\ procs["p"].pc = "idle"
    /\ procs' = [procs EXCEPT !["p"] =
                     [pc |-> "counted", filters |-> filters,
                      total |-> Cardinality(ProductMatching(products, filters))]]
    /\ UNCHANGED <<scen, users, products, categories, last>>

\* the find resolves first
FindAllFetchFirst(filters) ==
    /\ scen.scope = "paging" /\ procs["p"].pc = "idle"
    /\ procs' = [procs EXCEPT !["p"] =
                     [pc |-> "fetched", filters |-> filters,
                      data |-> FindPage(ProductMatching(products, filters),
                                        filters.pageNumber, filters.entryPerPage)]]
    /\ UNCHANGED <<scen, users, products, categories, last>>

\* the find resolves after the count, and findAll returns
FindAllThenFetch ==
    /\ procs["p"].pc = "counted"
    /\ LET r == procs["p"]
           matching == ProductMatching(products, r.filters)
           data == FindPage(matching, r.filters.pageNumber, r.filters.entryPerPage) IN
       Listed(r.filters,
              PageResult(r.total, data, r.filters.pageNumber, r.filters.entryPerPage),
              r.total # Cardinality(matching))
    /\ UNCHANGED <<scen, users, products, categories>>

\* The second read counting with an empty query: tombstoned documents too.
FindAllThenCount_AllDocuments ==
    /\ procs["p"].pc = "fetched"
    /\ LET r == procs["p"]
           matching == ProductMatching(products, r.filters) IN
       Listed(r.filters,
              PageResult(Len(products), r.data,
                         r.filters.pageNumber, r.filters.entryPerPage),
              r.data # FindPage(matching, r.filters.pageNumber, r.filters.entryPerPage))
    /\ UNCHANGED <<scen, users, products, categories>>

\* the count resolves after the find, and findAll returns
FindAllThenCount ==
    /\ procs["p"].pc = "fetched"
    /\ LET r == procs["p"]
           matching == ProductMatching(products, r.filters) IN
       Listed(r.filters,
              PageResult(Cardinality(matching), r.data,
                         r.filters.pageNumber, r.filters.entryPerPage),
              r.data # FindPage(matching, r.filters.pageNumber, r.filters.entryPerPage))
    /\ UNCHANGED <<scen, users, products, categories>>

InitPaging ==
    /\ scen \in PagingScenarios
    /\ users = << >>
    /\ products = << >>
    /\ categories = << >>
    /\ last = [op |-> "none", id |-> 0, out |-> "none"]
    /\ procs = [p \in Procs |-> Idle]

NextPaging ==
    \/ \E a \in CatalogActors : \E data \in PayloadsOf(a, ProductInputs) :
           CreateProduct(data, a)
    \/ \E id \in Ids(products), a \in CatalogActors, date \in Dates : DeleteProduct(id, a, date)
    \/ \E id \in Ids(products), a \in CatalogActors : RestoreProduct(id, a)
    \/ \E filters \in PagingFilters : FindAllCountFirst(filters)
    \/ \E filters \in PagingFilters : FindAllFetchFirst(filters)
    \/ FindAllThenFetch
    \/ FindAllThenCount

SpecPaging == InitPaging /\ [][NextPaging]_vars

\* ------------------------------------------------- concurrent requests
\* Every await of restore is a point where another request may run: the
\* three store calls of one restore are three steps.  create, update and
\* delete of a repository are one store call each.
Returned(p, id, out, err) ==
    procs' = [procs EXCEPT ![p] = [pc |-> "idle", id |-> id, seen |-> NoDoc,
                                   out |-> out, err |-> err]]

\* first await of restore: the lookup; null ends the call
RestoreLookup(p, id, found) ==
    /\ procs[p].pc = "idle"
    /\ IF found.doc = NoDoc
       THEN Returned(p, id, "null", 0)
       ELSE procs' = [procs EXCEPT ![p] = [pc |-> "scan", id |-> id, seen |-> found.doc,
                                           out |-> "none", err |-> 0]]

\* second await of restore: the conflict scan; a hit throws ConflictError
\* into the catch block
RestoreScan(p, conflictExists, catch(_)) ==
    IF conflictExists.doc # NoDoc
    THEN Returned(p, procs[p].id, catch("Conflict").out, 0)
    ELSE procs' = [procs EXCEPT ![p].pc = "write"]

\* third await of restore: the write; a rejected write goes to the catch block
RestoreWrite(p, w, catch(_)) ==
    IF w.code # 0 THEN Returned(p, procs[p].id, catch("MongoServerError").out, w.code)
    ELSE IF w.doc = NoDoc THEN Returned(p, procs[p].id, "null", 0)
    ELSE Returned(p, procs[p].id, "ok", 0)

UserRestoreLookup(p, id) ==
    /\ OnUsers
    /\ RestoreLookup(p, id, UserRepository_restore_lookup(users, id))
    /\ UNCHANGED <<scen, users, products, categories, last>>

UserRestoreScan(p) ==
    /\ OnUsers /\ procs[p].pc = "scan"
    /\ RestoreScan(p, UserRepository_restore_scan(users, procs[p].id, procs[p].seen),
                   UserRepository_restore_catch)
    /\ UNCHANGED <<scen, users, products, categories, last>>

UserRestoreWrite(p) ==
    /\ OnUsers /\ procs[p].pc = "write"
    /\ LET w == UserRepository_restore_write(users, procs[p].id) IN
       /\ RestoreWrite(p, w, UserRepository_restore_catch)
       /\ users' = w.coll
    /\ UNCHANGED <<scen, products, categories, last>>

UserRepoCreate(data) ==
    /\ OnUsers
    /\ LET r == UserRepository_create(users, data) IN
       /\ Len(r.coll) <= MaxUsers
       /\ users' = r.coll
    /\ UNCHANGED <<scen, products, categories, last, procs>>

UserRepoUpdate(id, data) ==
    /\ OnUsers
    /\ users' = UserRepository_update(users, id, data).coll
    /\ UNCHANGED <<scen, products, categories, last, procs>>

UserRepoDelete(id, date) ==
    /\ OnUsers
    /\ users' = UserRepository_delete(users, id, date).coll
    /\ UNCHANGED <<scen, products, categories, last, procs>>

ProductRestoreLookup(p, id) ==
    /\ OnProducts
    /\ RestoreLookup(p, id, ProductRepository_restore_lookup(products, id))
    /\ UNCHANGED <<scen, users, products, categories, last>>

ProductRestoreScan(p) ==
    /\ OnProducts /\ procs[p].pc = "scan"
    /\ RestoreScan(p, ProductRepository_restore_scan(products, procs[p].id, procs[p].seen),
                   ProductRepository_restore_catch)
    /\ UNCHANGED <<scen, users, products, categories, last>>

ProductRestoreWrite(p) ==
    /\ OnProducts /\ procs[p].pc = "write"
    /\ LET w == ProductRepository_restore_write(products, procs[p].id) IN
       /\ RestoreWrite(p, w, ProductRepository_restore_catch)
       /\ products' = w.coll
    /\ UNCHANGED <<scen, users, categories, last>>

ProductRepoCreate(data) ==
    /\ OnProducts
    /\ LET r == ProductRepository_create(products, data) IN
       /\ Len(r.coll) <= MaxProducts
       /\ products' = r.coll
    /\ UNCHANGED <<scen, users, categories, last, procs>>

ProductRepoUpdate(id, data) ==
    /\ OnProducts
    /\ products' = ProductRepository_update(products, id, data).coll
    /\ UNCHANGED <<scen, users, categories, last, procs>>

ProductRepoDelete(id, date) ==
    /\ OnProducts
    /\ products' = ProductRepository_delete(products, id, date).coll
    /\ UNCHANGED <<scen, users, categories, last, procs>>

CategoryRestoreLookup(p, id) ==
    /\ OnCategories
    /\ RestoreLookup(p, id, CategoryRepository_restore_lookup(categories, id))
    /\ UNCHANGED <<scen, users, products, categories, last>>

CategoryRestoreScan(p) ==
    /\ OnCategories /\ procs[p].pc = "scan"
    /\ RestoreScan(p, CategoryRepository_restore_scan(categories, procs[p].id, procs[p].seen,
                                                      scen.strictQuery),
                   CategoryRepository_restore_catch)
    /\ UNCHANGED <<scen, users, products, categories, last>>

CategoryRestoreWrite(p) ==
    /\ OnCategories /\ procs[p].pc = "write"
    /\ LET w == CategoryRepository_restore_write(categories, procs[p].id) IN
       /\ RestoreWrite(p, w, CategoryRepository_restore_catch)
       /\ categories' = w.coll
    /\ UNCHANGED <<scen, users, products, last>>

CategoryRepoCreate(data) ==
    /\ OnCategories
    /\ LET r == CategoryRepository_create(categories, data) IN
       /\ Len(r.coll) <= MaxCategories
       /\ categories' = r.coll
    /\ UNCHANGED <<scen, users, products, last, procs>>

CategoryRepoUpdate(id, data) ==
    /\ OnCategories
    /\ categories' = CategoryRepository_update(categories, id, data).coll
    /\ UNCHANGED <<scen, users, products, last, procs>>

CategoryRepoDelete(id, date) ==
    /\ OnCategories
    /\ categories' = CategoryRepository_delete(categories, id, date).coll
    /\ UNCHANGED <<scen, users, products, last, procs>>

\* What a service hands to the repository: the slug is the slug of the name,
\* the password is its hash.
Slugged(data) == [data EXCEPT !.slug = generateSlug(data.name)]

Hashed(data) == [data EXCEPT !.password = bcryptHash(data.password)]

InitRace ==
    /\ scen \in RaceScenarios
    /\ users = << >>
    /\ products = << >>
    /\ categories = << >>
    /\ last = [op |-> "none", id |-> 0, out |-> "none"]
    /\ procs = [p \in Procs |-> Idle]

NextRace ==
    \/ \E p \in Procs, id \in Ids(users) : UserRestoreLookup(p, id)
    \/ \E p \in Procs : UserRestoreScan(p)
    \/ \E p \in Procs : UserRestoreWrite(p)
    \/ \E data \in RegisterInputs : UserRepoCreate(Hashed(data))
    \/ \E id \in Ids(users), data \in UserPatches : UserRepoUpdate(id, data)
    \/ \E id \in Ids(users), date \in Dates : UserRepoDelete(id, date)
    \/ \E p \in Procs, id \in Ids(products) : ProductRestoreLookup(p, id)
    \/ \E p \in Procs : ProductRestoreScan(p)
    \/ \E p \in Procs : ProductRestoreWrite(p)
    \/ \E data \in ProductInputs : ProductRepoCreate(Slugged(data))
    \/ \E id \in Ids(products), data \in ProductPatches : ProductRepoUpdate(id, data)
    \/ \E id \in Ids(products), date \in Dates : ProductRepoDelete(id, date)
    \/ \E p \in Procs, id \in Ids(categories) : CategoryRestoreLookup(p, id)
    \/ \E p \in Procs : CategoryRestoreScan(p)
    \/ \E p \in Procs : CategoryRestoreWrite(p)
    \/ \E data \in CategoryInputs : CategoryRepoCreate(Slugged(data))
    \/ \E id \in Ids(categories), data \in CategoryPatches : CategoryRepoUpdate(id, data)
    \/ \E id \in Ids(categories), date \in Dates : CategoryRepoDelete(id, date)

SpecRace == InitRace /\ [][NextRace]_vars

\* ------------------------------------------------- the guard, in steps
\* deleteCategory awaits the product scan and then the delete of the
\* category: two store calls with no transaction around them, so a request
\* on products may run between the two.
\* first await: ensureAdmin, then the scan; a product found is a Conflict
DeleteCategoryScan(p, id, actingUser) ==
    /\ scen.scope = "guardRace" /\ procs[p].pc = "idle"
    /\ IF ~ensureAdmin(actingUser)
       THEN /\ last' = [op |-> "deleteCategory", id |-> id, out |-> "Unauthorized"]
            /\ UNCHANGED procs
       ELSE IF Len(CategoryService_deleteCategory_scan(products, id).data) > 0
       THEN /\ last' = [op |-> "deleteCategory", id |-> id, out |-> "Conflict"]
            /\ UNCHANGED procs
       ELSE /\ procs' = [procs EXCEPT ![p] = [pc |-> "delete", id |-> id, seen |-> NoDoc,
                                              out |-> "none", err |-> 0]]
            /\ UNCHANGED last
    /\ UNCHANGED <<scen, users, products, categories>>

\* second await: the delete of the category; null is NotFound
DeleteCategoryWrite(p, date) ==
    /\ scen.scope = "guardRace" /\ procs[p].pc = "delete"
    /\ LET r == CategoryRepository_delete(categories, procs[p].id, date) IN
       /\ categories' = r.coll
       /\ last' = [op |-> "deleteCategory", id |-> procs[p].id,
                   out |-> IF r.out = "null" THEN "NotFound" ELSE r.out]
    /\ procs' = [procs EXCEPT ![p] = Idle]
    /\ UNCHANGED <<scen, users, products>>

InitGuard ==
    /\ scen \in GuardScenarios
    /\ users = << >>
    /\ products = << >>
    /\ categories = << >>
    /\ last = [op |-> "none", id |-> 0, out |-> "none"]
    /\ procs = [p \in Procs |-> Idle]

NextGuard ==
    \/ \E a \in CatalogActors : \E data \in PayloadsOf(a, CategoryInputs) :
           CreateCategory(data, a)
    \/ \E a \in CatalogActors : \E data \in PayloadsOf(a, ProductInputs) :
           CreateProduct(data, a)
    \/ \E id \in Ids(products), a \in CatalogActors :
           \E data \in PayloadsOf(a, ProductPatches) : UpdateProduct(id, data, a)
    \/ \E id \in Ids(products), a \in CatalogActors, date \in Dates : DeleteProduct(id, a, date)
    \/ \E p \in Procs, id \in Ids(categories), a \in CatalogActors :
           DeleteCategoryScan(p, id, a)
    \/ \E p \in Procs, date \in Dates : DeleteCategoryWrite(p, date)

SpecGuard == InitGuard /\ [][NextGuard]_vars

\* ------------------------------------------------------------ lifecycle
\* create, soft-delete and restore with the time of the last write on the
\* documents.  updatedAt grows with every write: a request is taken while
\* the document it names has seen fewer than MaxStamp writes.
StampRoom(coll, id) ==
    IF id \in DOMAIN coll
    THEN IF "updatedAt" \in DOMAIN coll[id] THEN coll[id].updatedAt < MaxStamp ELSE TRUE
    ELSE TRUE

InitLifecycle ==
    /\ scen \in LifecycleScenarios
    /\ users = << >>
    /\ products = << >>
    /\ categories = << >>
    /\ last = [op |-> "none", id |-> 0, out |-> "none"]
    /\ procs = [p \in Procs |-> Idle]

NextLifecycle ==
    \/ \E data \in RegisterInputs : RegisterUser(data)
    \/ \E id \in Ids(users), data \in UserPatches, a \in UserActors :
           StampRoom(users, id) /\ UpdateUser(id, data, a)
    \/ \E id \in Ids(users), a \in UserActors, date \in Dates :
           StampRoom(users, id) /\ DeleteUser(id, a, date)
    \/ \E id \in Ids(users) : StampRoom(users, id) /\ RestoreUser(id)
    \/ \E a \in CatalogActors : \E data \in PayloadsOf(a, ProductInputs) :
           CreateProduct(data, a)
    \/ \E id \in Ids(products), a \in CatalogActors, date \in Dates : DeleteProduct(id, a, date)
    \/ \E id \in Ids(products), a \in CatalogActors : RestoreProduct(id, a)
    \/ \E a \in CatalogActors : \E data \in PayloadsOf(a, CategoryInputs) :
           CreateCategory(data, a)
    \/ \E id \in Ids(categories), a \in CatalogActors, date \in Dates :
           StampRoom(categories, id) /\ DeleteCategory(id, a, date)
    \/ \E id \in Ids(categories), a \in CatalogActors :
           StampRoom(categories, id) /\ RestoreCategory(id, a)

SpecLifecycle == InitLifecycle /\ [][NextLifecycle]_vars

\* -------------------------------------------------------------- sign-in
\* The credentials provider of auth.ts calls authenticateUser, its signIn
\* callback calls findOrCreateUserFromProvider for a Google account.  The
\* latter awaits the read and then the insert: two steps, with room for
\* another request, a second sign-in of the same account among them.
SignInEmails == { <<"a">>, <<"A">> }

LoginInputs == [email : SignInEmails, password : {"Pw1", "Pw2"}]

ProviderInputs == [email : SignInEmails]

AuthenticateUser(credentials) ==
    /\ scen.scope = "signIn"
    /\ Completed(UserService_authenticateUser(users, credentials))
    /\ UNCHANGED <<scen, users, products, categories, procs>>

\* findOrCreateUserFromProvider has returned: the data it was called with,
\* what the caller got (the _id of the user in id) and whether it inserted.
ProviderReturned(p, data, id, out, inserted) ==
    /\ procs' = [procs EXCEPT ![p] = [pc |-> "idle", data |-> data, id |-> id, out |-> out,
                                      inserted |-> inserted]]
    /\ last' = [op |-> "findOrCreateUserFromProvider", id |-> id, out |-> out]

\* first await of findOrCreateUserFromProvider: an existing user is returned
ProviderFind(p, data) ==
    /\ scen.scope = "provider" /\ procs[p].pc = "idle"
    /\ LET existingUser == UserService_findOrCreateUserFromProvider_find(users, data) IN
       IF existingUser.doc # NoDoc
       THEN ProviderReturned(p, data, existingUser.id, "ok", FALSE)
       ELSE /\ procs' = [procs EXCEPT ![p] = [pc |-> "create", data |-> data]]
            /\ UNCHANGED last
    /\ UNCHANGED <<scen, users, products, categories>>

\* second await of findOrCreateUserFromProvider: the insert
ProviderCreate(p) ==
    /\ procs[p].pc = "create"
    /\ LET r == UserService_findOrCreateUserFromProvider_create(users, procs[p].data) IN
       /\ Len(r.coll) <= MaxUsers
       /\ users' = r.coll
       /\ ProviderReturned(p, procs[p].data, IF r.out = "ok" THEN Len(r.coll) ELSE 0,
                           r.out, TRUE)
    /\ UNCHANGED <<scen, products, categories>>

InitSignIn ==
    /\ scen \in SignInScenarios
    /\ users = << >>
    /\ products = << >>
    /\ categories = << >>
    /\ last = [op |-> "none", id |-> 0, out |-> "none"]
    /\ procs = [p \in Procs |-> Idle]

NextSignIn ==
    \/ \E data \in RegisterInputs : RegisterUser(data)
    \/ \E id \in Ids(users), data \in UserPatches, a \in UserActors : UpdateUser(id, data, a)
    \/ \E id \in Ids(users), a \in UserActors, date \in Dates : DeleteUser(id, a, date)
    \/ \E id \in Ids(users) : RestoreUser(id)
    \/ \E id \in Ids(users), data \in ChangePasswordInputs, a \in UserActors :
           ChangePassword(id, data, a)
    \/ \E credentials \in LoginInputs : AuthenticateUser(credentials)

SpecSignIn == InitSignIn /\ [][NextSignIn]_vars

InitProvider ==
    /\ scen \in ProviderScenarios
    /\ users = << >>
    /\ products = << >>
    /\ categories = << >>
    /\ last = [op |-> "none", id |-> 0, out |-> "none"]
    /\ procs = [p \in Procs |-> Idle]

NextProvider ==
    \/ \E data \in RegisterInputs : RegisterUser(data)
    \/ \E id \in Ids(users), data \in UserPatches, a \in UserActors : UpdateUser(id, data, a)
    \/ \E id \in Ids(users), a \in UserActors, date \in Dates : DeleteUser(id, a, date)
    \/ \E p \in Procs, data \in ProviderInputs : ProviderFind(p, data)
    \/ \E p \in Procs : ProviderCreate(p)

SpecProvider == InitProvider /\ [][NextProvider]_vars

\* ================================================================ claims
Admin == [id |-> 1, isAdmin |-> TRUE]

Tombstoned(doc) == doc.deletedAt # NullDate

\* Two active documents of one collection at different ids
ActivePair(coll, i, j) == i # j /\ ~Tombstoned(coll[i]) /\ ~Tombstoned(coll[j])

\* C1: after any interleaving of create, update, soft-delete and restore, no
\* two distinct active records of one kind share a uniqueness-bearing value
\* (User: email; Product: name, slug; Category: name, slug).
C1_UniqueWhileActive ==
    /\ \A i, j \in DOMAIN users :
           ActivePair(users, i, j) => users[i].email # users[j].email
    /\ \A i, j \in DOMAIN products :
           ActivePair(products, i, j)
               => products[i].name # products[j].name /\ products[i].slug # products[j].slug
    /\ \A i, j \in DOMAIN categories :
           ActivePair(categories, i, j)
               => categories[i].name # categories[j].name
                  /\ categories[i].slug # categories[j].slug

\* C1 witness: an active and a tombstoned user hold the same email, and a
\* restore of the tombstoned one has come back with Conflict.
C1_Witness ==
    \E p \in Procs, a \in DOMAIN users :
        /\ procs[p].pc = "idle" /\ procs[p].out = "Conflict"
        /\ procs[p].id \in DOMAIN users /\ procs[p].id # a
        /\ Tombstoned(users[procs[p].id]) /\ ~Tombstoned(users[a])
        /\ users[a].email = users[procs[p].id].email

\* An active user other than b that holds b's email
EmailCollider(coll, b) ==
    \E a \in DOMAIN coll : a # b /\ ~Tombstoned(coll[a]) /\ coll[a].email = coll[b].email

\* C2: with an active user A and a tombstoned user B of the same email,
\* UserRepository.restore(B) throws ConflictError and changes no document.
C2_UserRestoreConflict ==
    \A b \in DOMAIN users :
        (Tombstoned(users[b]) /\ EmailCollider(users, b))
            => LET r == UserRepository_restore(users, b) IN
               r.out = "Conflict" /\ r.coll = users

\* C2 witness: the restore of B has just failed with Conflict, B is still
\* tombstoned and A is active with B's email.
C2_Witness ==
    /\ last.op = "restoreUser" /\ last.out = "Conflict"
    /\ last.id \in DOMAIN users
    /\ Tombstoned(users[last.id])
    /\ EmailCollider(users, last.id)

\* An active document other than b that holds b's name or b's slug
NameOrSlugCollider(coll, b) ==
    \E a \in DOMAIN coll :
        /\ a # b /\ ~Tombstoned(coll[a])
        /\ (coll[a].name = coll[b].name \/ coll[a].slug = coll[b].slug)

\* C3: restoreProduct of a tombstoned product whose name or slug is held by
\* another active product ends in ConflictError for the caller, and the
\* product stays tombstoned.
C3_ProductRestoreConflict ==
    \A b \in DOMAIN products :
        (Tombstoned(products[b]) /\ NameOrSlugCollider(products, b))
            => LET c == ProductService_restoreProduct(products, b, Admin) IN
               c.res.out = "Conflict" /\ c.coll = products

\* C4: the conflict scan of the category restore blocks the restore, with
\* ConflictError and no mutation, exactly when another active category holds
\* the name or the slug of the restored one; an active category that shares
\* neither does not block it.
C4_CategoryRestoreScan ==
    \A b \in DOMAIN categories :
        Tombstoned(categories[b])
            => LET c == CategoryService_restoreCategory(categories, b, Admin, scen.strictQuery) IN
               IF NameOrSlugCollider(categories, b)
               THEN c.res.out = "Conflict" /\ c.coll = categories
               ELSE c.res.out = "ok"

\* What a successful restore of coll[b] gives: the document, active again, in
\* the collection and in the caller's hands, all else as it was.
Reactivated(coll, b, r) ==
    /\ r.out = "ok"
    /\ r.coll = [coll EXCEPT ![b].deletedAt = NullDate]
    /\ r.val = r.coll[b]

\* C5: restoring a tombstoned user, product or category while no other active
\* record holds any of its uniqueness-bearing values succeeds: deletedAt is
\* null, the record is returned, and findById with default options finds it.
C5_RestoreSucceeds ==
    /\ \A b \in DOMAIN users :
           (Tombstoned(users[b]) /\ ~EmailCollider(users, b))
               => LET r == UserRepository_restore(users, b) IN
                  /\ Reactivated(users, b, r)
                  /\ UserRepository_findById(r.coll, b, DefaultOptions).doc = r.val
    /\ \A b \in DOMAIN products :
           (Tombstoned(products[b]) /\ ~NameOrSlugCollider(products, b))
               => LET r == ProductRepository_restore(products, b) IN
                  /\ Reactivated(products, b, r)
                  /\ ProductRepository_findById(r.coll, b, DefaultOptions).doc = r.val
    /\ \A b \in DOMAIN categories :
           (Tombstoned(categories[b]) /\ ~NameOrSlugCollider(categories, b))
               => LET r == CategoryRepository_restore(categories, b, scen.strictQuery) IN
                  /\ Reactivated(categories, b, r)
                  /\ CategoryRepository_findById(r.coll, b, DefaultOptions).doc = r.val

\* An id that names no document or an active one
AbsentOrActive(coll, id) == id \notin DOMAIN coll \/ ~Tombstoned(coll[id])

\* A repository restore that did nothing: null, nothing logged, no change
NoOp(coll, r) == r.out = "null" /\ r.logs = 0 /\ r.coll = coll

\* The three repository restores on an id that is absent or active
RepositoryRestoreNoOp ==
    /\ \A id \in Ids(users) :
           AbsentOrActive(users, id) => NoOp(users, UserRepository_restore(users, id))
    /\ \A id \in Ids(products) :
           AbsentOrActive(products, id)
               => NoOp(products, ProductRepository_restore(products, id))
    /\ \A id \in Ids(categories) :
           AbsentOrActive(categories, id)
               => NoOp(categories, CategoryRepository_restore(categories, id, scen.strictQuery))

\* restoreProduct by an admin on an id that is absent or active
RestoreProductNoOp ==
    \A id \in Ids(products) :
        AbsentOrActive(products, id)
            => LET c == ProductService_restoreProduct(products, id, Admin) IN
               c.res.out = "null" /\ c.res.logs = 0 /\ c.coll = products

\* C6 as stated: restoring an id that is absent or already active returns
\* null, raises no error and changes nothing, in the repository restore of
\* every kind and in restoreProduct and restoreCategory.
C6_RestoreNoOpEverywhere ==
    /\ RepositoryRestoreNoOp
    /\ RestoreProductNoOp
    /\ \A id \in Ids(categories) :
           AbsentOrActive(categories, id)
               => LET c == CategoryService_restoreCategory(categories, id, Admin,
                                                           scen.strictQuery) IN
                  c.res.out = "null" /\ c.coll = categories

\* C6 amended: the repository restores and restoreProduct return null with no
\* error and no change; restoreCategory changes nothing either, but reports
\* the repository's null as NotFoundError.
C6_RestoreNoOp ==
    /\ RepositoryRestoreNoOp
    /\ RestoreProductNoOp
    /\ \A id \in Ids(categories) :
           AbsentOrActive(categories, id)
               => LET c == CategoryService_restoreCategory(categories, id, Admin,
                                                           scen.strictQuery) IN
                  c.res.repo = "null" /\ c.res.out = "NotFound" /\ c.coll = categories

\* C6 witness: restoreProduct of an active product has just returned null.
C6_Witness ==
    /\ last.op = "restoreProduct" /\ last.out = "null"
    /\ last.id \in DOMAIN products
    /\ ~Tombstoned(products[last.id])

\* Some product, active or tombstoned, is assigned to category c
HasAssignedProduct(c) == \E i \in DOMAIN products : products[i].categoryId = c

\* C7: deleteCategory(C) fails with Conflict and changes nothing whenever a
\* product, active or tombstoned, has categoryId = C; no caller gets C
\* tombstoned then.
C7_CategoryDeleteGuard ==
    \A c \in Ids(categories), date \in Dates, a \in CatalogActors :
        HasAssignedProduct(c)
            => LET d == CategoryService_deleteCategory(categories, products, c, a, date) IN
               /\ d.coll = categories
               /\ a.isAdmin => d.res.out = "Conflict"

\* C7 witness: deleteCategory of an active category has just failed with
\* Conflict while the only products assigned to it are tombstoned.
C7_Witness ==
    /\ last.op = "deleteCategory" /\ last.out = "Conflict"
    /\ last.id \in DOMAIN categories
    /\ ~Tombstoned(categories[last.id])
    /\ HasAssignedProduct(last.id)
    /\ \A i \in DOMAIN products :
           products[i].categoryId = last.id => Tombstoned(products[i])

\* The collection the requests of this deployment restore from
Restorable ==
    CASE scen.scope = "user" -> users
      [] scen.scope = "product" -> products
      [] OTHER -> categories

\* Two documents share a uniqueness-bearing value
SharesUnique(d, e) ==
    IF scen.scope = "user" THEN d.email = e.email
    ELSE d.name = e.name \/ d.slug = e.slug

\* The restore of p got past its conflict scan
PassedScan(p) ==
    \/ procs[p].pc = "write"
    \/ procs[p].pc = "idle" /\ (procs[p].out = "ok" \/ procs[p].err = DuplicateKey)

\* C8: when two restores of different tombstoned records that share a
\* uniqueness-bearing value both pass the conflict scan, the two records are
\* never both active: the unique index rejects one of the writes.
C8_RacingRestores ==
    \A p, q \in Procs :
        (/\ p # q /\ PassedScan(p) /\ PassedScan(q)
         /\ procs[p].id # procs[q].id
         /\ SharesUnique(Restorable[procs[p].id], Restorable[procs[q].id]))
            => ~ActivePair(Restorable, procs[p].id, procs[q].id)

\* C8 witness: of two restores of users with one email that had both passed
\* the scan, one has written and the unique index has rejected the other.
C8_Witness ==
    \E p, q \in Procs :
        /\ scen.scope = "user"
        /\ procs[p].pc = "idle" /\ procs[p].out = "ok"
        /\ procs[q].pc = "idle" /\ procs[q].err = DuplicateKey
        /\ procs[p].id # procs[q].id
        /\ users[procs[p].id].email = users[procs[q].id].email
        /\ ~Tombstoned(users[procs[p].id]) /\ Tombstoned(users[procs[q].id])

\* C9: a restore whose write the unique index rejected, after its scan had
\* passed, comes back to the caller as ConflictError.
C9_RejectedWriteIsConflict ==
    \A p \in Procs : procs[p].err = DuplicateKey => procs[p].out = "Conflict"

\* No active product holds the name or the slug that createProduct gives data
NoActiveCollision(data) ==
    \A i \in DOMAIN products :
        ~Tombstoned(products[i])
            => products[i].name # data.name /\ products[i].slug # generateSlug(data.name)

\* C10: after a product is created and soft-deleted, createProduct with the
\* same name succeeds when no active product collides: the tombstoned one
\* does not count.
C10_CreateAfterSoftDelete ==
    \A i \in DOMAIN products, data \in ProductInputs :
        (Tombstoned(products[i]) /\ data.name = products[i].name /\ NoActiveCollision(data))
            => LET c == ProductService_createProduct(products, data, Admin) IN
               /\ c.res.out = "ok"
               /\ c.coll = Append(products, c.res.val)
               /\ c.res.val.name = data.name
               /\ c.res.val.slug = generateSlug(data.name)
               /\ ~Tombstoned(c.res.val)

\* C10 witness: createProduct has just succeeded, and the new product has the
\* name and the slug of an earlier product that is tombstoned.
C10_Witness ==
    /\ last.op = "createProduct" /\ last.out = "ok"
    /\ \E i \in DOMAIN products :
           /\ i < Len(products)
           /\ Tombstoned(products[i]) /\ ~Tombstoned(products[Len(products)])
           /\ products[i].name = products[Len(products)].name
           /\ products[i].slug = products[Len(products)].slug

\* No active user holds the email that the schema stores for data
NoActiveEmail(data) ==
    \A i \in DOMAIN users : ~Tombstoned(users[i]) => users[i].email # CastEmail(data.email)

\* C11: after a user is registered and deleted, registerUser with the same
\* email succeeds when no active user holds it: neither the email index nor
\* the phoneNumber index rejects the second registration.
C11_RegisterAfterDelete ==
    \A b \in DOMAIN users, data \in RegisterInputs :
        (/\ data.valid /\ Tombstoned(users[b])
         /\ CastEmail(data.email) = users[b].email /\ NoActiveEmail(data))
            => UserService_registerUser(users, data).res.out = "ok"

\* Actors of both roles
Visitor == [id |-> 1, isAdmin |-> FALSE]

\* What findOne returned is no tombstoned document
NotTombstoned(found) == found.doc = NoDoc \/ ~Tombstoned(found.doc)

\* A page of a collection holds no tombstoned document
NoTombstones(coll, page) ==
    \A k \in 1..Len(page.data) : ~Tombstoned(coll[page.data[k]])

\* The fetches of the repositories under options or filters whose
\* includeDeleted is false or left out: no tombstoned document comes back.
RepositoryFetchesExclude ==
    \A flag \in Flags \ {"true"} :
        LET options == [includeDeleted |-> flag]
            filters == [pageNumber |-> 1, entryPerPage |-> EntryPerPage,
                        includeDeleted |-> flag, categoryId |-> NoCategory] IN
        /\ \A id \in Ids(users) : NotTombstoned(UserRepository_findById(users, id, options))
        /\ \A e \in EmailInputs : NotTombstoned(UserRepository_findByEmail(users, e, options))
        /\ NoTombstones(users, UserRepository_findAll(users, filters))
        /\ \A id \in Ids(products) :
               NotTombstoned(ProductRepository_findById(products, id, options))
        /\ \A n \in ProductNames :
               /\ NotTombstoned(ProductRepository_findByName(products, n, options))
               /\ NotTombstoned(ProductRepository_findBySlug(products, generateSlug(n), options))
        /\ NoTombstones(products, ProductRepository_findAll(products, filters))
        /\ \A id \in Ids(categories) :
               NotTombstoned(CategoryRepository_findById(categories, id, options))
        /\ NoTombstones(categories, CategoryRepository_findAll(categories, filters))

\* C12 as stated: a fetch of a service whose caller passes false for
\* includeDeleted, or leaves it out, or cannot pass it, returns no tombstoned
\* record.
C12_ExcludedUnlessRequested ==
    /\ \A id \in Ids(users), a \in UserActors :
           TombstonesIn(users, UserService_findUserById(users, id, a)) = 0
    /\ \A e \in EmailInputs, a \in UserActors :
           TombstonesIn(users, UserService_findUserByEmail(users, e, a)) = 0
    /\ \A id \in Ids(products), a \in CatalogActors :
           TombstonesIn(products, ProductService_findProductById(products, id, a)) = 0
    /\ \A id \in Ids(categories), a \in CatalogActors, o \in FindOptions :
           o.includeDeleted # "true"
               => TombstonesIn(categories,
                               CategoryService_findCategoryById(categories, id, o, a)) = 0
    /\ \A f \in ProductListFilters, a \in CatalogActors :
           f.includeDeleted # "true"
               => /\ TombstonesIn(users, UserService_findAllUsers(users, f, a).res) = 0
                  /\ TombstonesIn(products,
                                  ProductService_findAllProducts(products, f, a).res) = 0
                  /\ TombstonesIn(categories,
                                  CategoryService_findAllCategories(categories, f, a).res) = 0

\* C12 amended: the repository fetches return a tombstoned record only under
\* includeDeleted = true.  The services set the flag from the caller's role:
\* a caller who is not an admin and does not pass true gets no tombstoned
\* product or category; an admin gets the tombstoned ones from the by-id,
\* by-slug and by-name fetches whatever the flag, and from the list fetches
\* unless the flag is false; findUserById and findUserByEmail read tombstoned
\* users for whoever may call them.
C12_VisibleByFlagOrRole ==
    /\ RepositoryFetchesExclude
    /\ \A id \in Ids(products) :
           /\ TombstonesIn(products, ProductService_findProductById(products, id, Visitor)) = 0
           /\ ProductService_findProductById(products, id, Admin).val
                  = ProductRepository_findById(products, id, [includeDeleted |-> "true"]).doc
    /\ \A n \in ProductNames :
           /\ TombstonesIn(products, ProductService_findProductByName(products, n, Visitor)) = 0
           /\ TombstonesIn(products,
                  ProductService_findProductBySlug(products, generateSlug(n), Visitor)) = 0
    /\ \A id \in Ids(categories), o \in FindOptions :
           /\ TombstonesIn(categories,
                  CategoryService_findCategoryById(categories, id, o, Visitor)) = 0
           /\ CategoryService_findCategoryById(categories, id, o, Admin).val
                  = CategoryRepository_findById(categories, id, [includeDeleted |-> "true"]).doc
    /\ \A f \in ProductListFilters :
           /\ TombstonesIn(categories,
                  CategoryService_findAllCategories(categories, f, Visitor).res) = 0
           /\ f.includeDeleted # "true"
                  => TombstonesIn(products,
                         ProductService_findAllProducts(products, f, Visitor).res) = 0
           /\ f.includeDeleted # "false"
                  => LET all == [f EXCEPT !.includeDeleted = "true"] IN
                     /\ UserService_findAllUsers(users, f, Admin).res.val
                            = UserRepository_findAll(users, all)
                     /\ ProductService_findAllProducts(products, f, Admin).res.val
                            = ProductRepository_findAll(products, all)
                     /\ CategoryService_findAllCategories(categories, f, Admin).res.val
                            = CategoryRepository_findAll(categories, all)
           /\ f.includeDeleted = "false"
                  => /\ TombstonesIn(users, UserService_findAllUsers(users, f, Admin).res) = 0
                     /\ TombstonesIn(products,
                            ProductService_findAllProducts(products, f, Admin).res) = 0
                     /\ TombstonesIn(categories,
                            CategoryService_findAllCategories(categories, f, Admin).res) = 0
    /\ \A id \in Ids(users), a \in UserActors :
           (a.id = id \/ a.isAdmin)
               => UserService_findUserById(users, id, a).val
                      = UserRepository_findById(users, id, [includeDeleted |-> "true"]).doc
    /\ \A e \in EmailInputs :
           UserService_findUserByEmail(users, e, Admin).val
               = UserRepository_findByEmail(users, e, [includeDeleted |-> "true"]).doc

\* C12 witness: an admin has listed the categories without saying
\* includeDeleted and has got a tombstoned category back.
C12_Witness ==
    /\ last.op = "findAllCategories" /\ last.out = "ok"
    /\ last.actingUser.isAdmin
    /\ last.includeDeleted = "undefined"
    /\ last.tombstones > 0

\* C13: no update, for any patch a caller can pass, changes the deletedAt of
\* an existing record: updateUser, updateProduct and updateCategory leave the
\* deletedAt of every document as it was.
C13_UpdateKeepsDeletedAt ==
    /\ \A id \in Ids(users), data \in UserPatches, a \in UserActors :
           LET c == UserService_updateUser(users, id, data, a) IN
           \A i \in DOMAIN users : c.coll[i].deletedAt = users[i].deletedAt
    /\ \A id \in Ids(products), data \in ProductPatches, a \in CatalogActors :
           LET c == ProductService_updateProduct(products, id, data, a) IN
           \A i \in DOMAIN products : c.coll[i].deletedAt = products[i].deletedAt
    /\ \A id \in Ids(categories), data \in CategoryPatches, a \in CatalogActors :
           LET c == CategoryService_updateCategory(categories, id, data, a) IN
           \A i \in DOMAIN categories : c.coll[i].deletedAt = categories[i].deletedAt

\* C14: entities are never hard-deleted: no step takes a document out of a
\* collection, so every record ever created is still in the store; the
\* delete operations only set deletedAt.
C14_NeverHardDeleted ==
    [][/\ Len(users') >= Len(users)
       /\ Len(products') >= Len(products)
       /\ Len(categories') >= Len(categories)]_vars

\* C15: createProduct, updateProduct, deleteProduct, restoreProduct,
\* createCategory, updateCategory, deleteCategory and restoreCategory called
\* by an acting user who is not an admin end in Unauthorized before any
\* repository call, and the store is unchanged.
C15_AdminOnlyCatalog ==
    LET Refused(c, coll) ==
            c.res.out = "Unauthorized" /\ c.res.repo = "none" /\ c.coll = coll IN
    /\ \A data \in ProductInputs :
           Refused(ProductService_createProduct(products, data, Visitor), products)
    /\ \A id \in Ids(products), data \in ProductPatches, date \in Dates :
           /\ Refused(ProductService_updateProduct(products, id, data, Visitor), products)
           /\ Refused(ProductService_deleteProduct(products, id, Visitor, date), products)
           /\ Refused(ProductService_restoreProduct(products, id, Visitor), products)
    /\ \A data \in CategoryInputs :
           Refused(CategoryService_createCategory(categories, data, Visitor), categories)
    /\ \A id \in Ids(categories), data \in CategoryPatches, date \in Dates :
           /\ Refused(CategoryService_updateCategory(categories, id, data, Visitor), categories)
           /\ Refused(CategoryService_deleteCategory(categories, products, id, Visitor, date),
                      categories)
           /\ Refused(CategoryService_restoreCategory(categories, id, Visitor,
                                                      scen.strictQuery), categories)

\* C15 witness: a deleteCategory has just come back Unauthorized, and the
\* category it named is in the store, active, with no product assigned.
C15_Witness ==
    /\ last.op = "deleteCategory" /\ last.out = "Unauthorized"
    /\ last.id \in DOMAIN categories
    /\ ~Tombstoned(categories[last.id])
    /\ ~HasAssignedProduct(last.id)

\* C16: changePassword(id, ...) succeeds only for the acting user whose id
\* is id; any other acting user, an admin included, gets Unauthorized and
\* the stored password stays as it was.
C16_OwnPasswordOnly ==
    \A id \in Ids(users), data \in ChangePasswordInputs, a \in UserActors :
        LET c == UserService_changePassword(users, id, data, a) IN
        /\ a.id # id => c.res.out = "Unauthorized" /\ c.coll = users
        /\ c.res.out = "ok" => a.id = id

\* C16 witness: an admin has just asked to change the password of another
\* user, who is active and has one, and got Unauthorized.
C16_Witness ==
    /\ last.op = "changePassword" /\ last.out = "Unauthorized"
    /\ last.actingUser.isAdmin /\ last.actingUser.id # last.id
    /\ last.id \in DOMAIN users
    /\ ~Tombstoned(users[last.id])
    /\ users[last.id].password = bcryptHash("Pw1")

\* C17: findUserById, updateUser and deleteUser go on only for the target
\* or an admin, findUserByEmail and findAllUsers only for an admin; every
\* other caller gets Unauthorized and the store is unchanged.
C17_UserAccess ==
    \A a \in UserActors :
        /\ \A id \in Ids(users) :
               LET allowed == a.id = id \/ a.isAdmin IN
               /\ (UserService_findUserById(users, id, a).out = "Unauthorized") = ~allowed
               /\ \A data \in UserPatches :
                      LET c == UserService_updateUser(users, id, data, a) IN
                      /\ (c.res.out = "Unauthorized") = ~allowed
                      /\ ~allowed => c.coll = users
               /\ \A date \in Dates :
                      LET c == UserService_deleteUser(users, id, a, date) IN
                      /\ (c.res.out = "Unauthorized") = ~allowed
                      /\ ~allowed => c.coll = users
        /\ \A e \in EmailInputs :
               (UserService_findUserByEmail(users, e, a).out = "Unauthorized") = ~a.isAdmin
        /\ \A f \in ListFilters :
               (UserService_findAllUsers(users, f, a).res.out = "Unauthorized") = ~a.isAdmin

\* C17 witness: a user who is not an admin has just asked for the profile of
\* another user, who exists, and got Unauthorized.
C17_Witness ==
    /\ last.op = "findUserById" /\ last.out = "Unauthorized"
    /\ ~last.actingUser.isAdmin /\ last.actingUser.id # last.id
    /\ last.id \in DOMAIN users

\* C18: when the store rejects the insert of a create with a unique-index
\* violation, the caller gets Conflict, for users, products and categories.
C18_DuplicateInsertIsConflict ==
    /\ \A data \in RegisterInputs :
           (data.valid
            /\ MongoCreate(users, NewUserDoc(Hashed(data)), UserIndexesHold).code = DuplicateKey)
               => UserService_registerUser(users, data).res.out = "Conflict"
    /\ \A data \in ProductInputs :
           MongoCreate(products, NewProductDoc(Slugged(data)), ProductIndexesHold).code
                   = DuplicateKey
               => ProductService_createProduct(products, data, Admin).res.out = "Conflict"
    /\ \A data \in CategoryInputs :
           MongoCreate(categories, NewCategoryDoc(Slugged(data)), CategoryIndexesHold).code
                   = DuplicateKey
               => CategoryService_createCategory(categories, data, Admin).res.out = "Conflict"

\* An active document other than id holds a uniqueness-bearing value of doc
UserCollision(id, doc) ==
    \E j \in DOMAIN users :
        /\ j # id /\ ~Tombstoned(users[j])
        /\ (users[j].email = doc.email \/ users[j].phoneNumber = doc.phoneNumber)

CatalogCollision(coll, id, doc) ==
    \E j \in DOMAIN coll :
        j # id /\ ~Tombstoned(coll[j]) /\ (coll[j].name = doc.name \/ coll[j].slug = doc.slug)

\* The patch as the update service hands it to the repository
WithSlug(data) == IF data.name # NoText THEN Slugged(data) ELSE data

\* C19: an update that would give an active record a uniqueness-bearing value
\* that another active record of its kind holds fails with Conflict and
\* changes no record.
C19_UpdateCollisionIsConflict ==
    /\ \A id \in DOMAIN users, data \in UserPatches :
           (/\ data.valid /\ ~Tombstoned(users[id])
            /\ UserCollision(id, ApplyUserPatch(users[id], data)))
               => LET c == UserService_updateUser(users, id, data, Admin) IN
                  c.res.out = "Conflict" /\ c.coll = users
    /\ \A id \in DOMAIN products, data \in ProductPatches :
           (/\ ~Tombstoned(products[id])
            /\ CatalogCollision(products, id, ApplyProductPatch(products[id], WithSlug(data))))
               => LET c == ProductService_updateProduct(products, id, data, Admin) IN
                  c.res.out = "Conflict" /\ c.coll = products
    /\ \A id \in DOMAIN categories, data \in CategoryPatches :
           (/\ ~Tombstoned(categories[id]) /\ ~data.setDeletedAt
            /\ CatalogCollision(categories, id,
                                ApplyCategoryPatch(categories[id], WithSlug(data))))
               => LET c == CategoryService_updateCategory(categories, id, data, Admin) IN
                  c.res.out = "Conflict" /\ c.coll = categories

\* C19 witness: an updateProduct has just failed with Conflict in a store of
\* two active products, which still differ in name and in slug.
C19_Witness ==
    /\ last.op = "updateProduct" /\ last.out = "Conflict"
    /\ Len(products) = 2
    /\ ActivePair(products, 1, 2)
    /\ products[1].name # products[2].name /\ products[1].slug # products[2].slug

\* C20: an update or delete of a service on an id that names no record
\* reports NotFound, not null, for users, products and categories.
C20_MissingIdIsNotFound ==
    /\ \A data \in UserPatches, date \in Dates :
           LET id == Len(users) + 1 IN
           /\ data.valid => UserService_updateUser(users, id, data, Admin).res.out = "NotFound"
           /\ UserService_deleteUser(users, id, Admin, date).res.out = "NotFound"
    /\ \A data \in ProductPatches, date \in Dates :
           LET id == Len(products) + 1 IN
           /\ ProductService_updateProduct(products, id, data, Admin).res.out = "NotFound"
           /\ ProductService_deleteProduct(products, id, Admin, date).res.out = "NotFound"
    /\ \A data \in CategoryPatches, date \in Dates :
           LET id == Len(categories) + 1 IN
           /\ CategoryService_updateCategory(categories, id, data, Admin).res.out = "NotFound"
           /\ CategoryService_deleteCategory(categories, products, id, Admin, date).res.out
                  = "NotFound"

RoleOptions(a) == [includeDeleted |-> IF a.isAdmin THEN "true" ELSE "false"]

AbortedOnValidation(c, coll) ==
    c.res.out = "Validation" /\ c.res.repo = "none" /\ c.coll = coll

\* C22: every create and every update whose payload the field validator
\* rejects ends in a Validation failure before the store is touched, with no
\* mutation, for users, products and categories.
C22_ValidatedBeforeStore ==
    /\ \A data \in RegisterInputs :
           ~data.valid => AbortedOnValidation(UserService_registerUser(users, data), users)
    /\ \A id \in Ids(users), data \in UserPatches :
           ~data.valid
               => AbortedOnValidation(UserService_updateUser(users, id, data, Admin), users)
    /\ \A data \in ProductInputs :
           ~zCreateProductSchema(data)
               => AbortedOnValidation(ProductService_createProduct(products, data, Admin),
                                      products)
    /\ \A id \in Ids(products), data \in ProductPatches :
           ~zUpdateProductSchema(data)
               => AbortedOnValidation(ProductService_updateProduct(products, id, data, Admin),
                                      products)
    /\ \A data \in CategoryInputs :
           ~zCreateCategorySchema(data)
               => AbortedOnValidation(CategoryService_createCategory(categories, data, Admin),
                                      categories)

\* The list filters the pagination claims range over: the pages up to one
\* past MaxPage, pages of PageSize, of PageSize + 1 and of ten records.
PageFilters ==
    [pageNumber : 1..(MaxPage + 1), entryPerPage : {PageSize, PageSize + 1, EntryPerPage},
     includeDeleted : Flags, categoryId : {NoCategory, 1}]

Max(a, b) == IF a >= b THEN a ELSE b

\* What the claim says of one result r of findAll(f), matching being the
\* documents the query of f selects
PageIsConsistent(r, f, matching) ==
    LET offset == (f.pageNumber - 1) * f.entryPerPage
        totalCount == Cardinality(matching)
        returnedCount == Len(r.data) IN
    /\ returnedCount = Max(0, Min(f.entryPerPage, totalCount - offset))
    /\ \A k \in DOMAIN r.data : r.data[k] \in matching
    /\ \A k, l \in DOMAIN r.data : k # l => r.data[k] # r.data[l]
    /\ r.hasNext = (offset + returnedCount < totalCount)
    /\ r.hasPrev = (f.pageNumber > 1)
    /\ r.shownEntryCount = returnedCount
    /\ offset >= totalCount => (r.shownEntryCount = 0 /\ ~r.hasNext)

\* C23: findAll of page pageNumber >= 1 with page size S returns the records
\* at offset (pageNumber-1)*S of the query, hasNext = (offset + returnedCount
\* < totalCount), hasPrev = (pageNumber > 1), shownEntryCount = returnedCount,
\* count and page over the same predicate; a page past the end is a result
\* with shownEntryCount = 0 and hasNext false, not an error.
C23_PageArithmetic ==
    \A f \in PageFilters :
        /\ PageIsConsistent(UserRepository_findAll(users, f), f,
               {i \in DOMAIN users : UserGenerateQuery(f, users[i])})
        /\ PageIsConsistent(ProductRepository_findAll(products, f), f,
               {i \in DOMAIN products : ProductGenerateQuery(f, products[i])})
        /\ PageIsConsistent(CategoryRepository_findAll(categories, f), f,
               {i \in DOMAIN categories : CategoryGenerateQuery(f, categories[i])})
        /\ UserService_findAllUsers(users, f, Admin).res.out = "ok"
        /\ ProductService_findAllProducts(products, f, Admin).res.out = "ok"
        /\ CategoryService_findAllCategories(categories, f, Admin).res.out = "ok"

\* C23 witness: with one active product in the store, a listing of page 2,
\* read with no write between its reads, has returned the empty page.
C23_Witness ==
    /\ last.op = "findAll" /\ last.out = "ok" /\ ~last.stale
    /\ last.filters.pageNumber = 2
    /\ Cardinality({i \in DOMAIN products : ~Tombstoned(products[i])}) = 1
    /\ last.page.shownEntryCount = 0 /\ ~last.page.hasNext /\ last.page.hasPrev

\* ceil(N / S)
PageCount(N, S) == (N + S - 1) \div S

\* The filters of page p of the active records, S to a page
ActivePage(p, S) ==
    [pageNumber |-> p, entryPerPage |-> S, includeDeleted |-> "false",
     categoryId |-> NoCategory]

RECURSIVE SumShown(_)
SumShown(pages) ==
    IF pages = << >> THEN 0 ELSE Head(pages).shownEntryCount + SumShown(Tail(pages))

\* pages is the sequence of the results of pages 1..ceil(N/S)
PageTotalsHold(pages, N) ==
    /\ SumShown(pages) = N
    /\ \A p \in DOMAIN pages :
           /\ pages[p].hasNext = (p < Len(pages))
           /\ pages[p].hasPrev = (p # 1)

\* C24: with N active records matching, page size S and no write between the
\* calls, the shownEntryCount of pages 1..ceil(N/S) sum to N, hasNext is
\* true exactly on the pages before the last and hasPrev is false exactly on
\* page 1.
C24_PageTotals ==
    \A S \in {PageSize, PageSize + 1, EntryPerPage} :
        /\ LET N == Cardinality({i \in DOMAIN users : ~Tombstoned(users[i])}) IN
           PageTotalsHold([p \in 1..PageCount(N, S) |->
                               UserRepository_findAll(users, ActivePage(p, S))], N)
        /\ LET N == Cardinality({i \in DOMAIN products : ~Tombstoned(products[i])}) IN
           PageTotalsHold([p \in 1..PageCount(N, S) |->
                               ProductRepository_findAll(products, ActivePage(p, S))], N)
        /\ LET N == Cardinality({i \in DOMAIN categories : ~Tombstoned(categories[i])}) IN
           PageTotalsHold([p \in 1..PageCount(N, S) |->
                               CategoryRepository_findAll(categories, ActivePage(p, S))], N)

\* C24 witness: with two active products and pages of one record, a listing
\* of page 2, the last page, has returned its one record with hasNext false
\* and hasPrev true, no write having fallen between its reads.
C24_Witness ==
    /\ last.op = "findAll" /\ last.out = "ok" /\ ~last.stale
    /\ Cardinality({i \in DOMAIN products : ~Tombstoned(products[i])}) = 2
    /\ last.filters.entryPerPage = 1 /\ last.filters.pageNumber = 2
    /\ last.page.shownEntryCount = 1 /\ ~last.page.hasNext /\ last.page.hasPrev

\* The values a caller can leave in includeDeleted: true, false, undefined
\* (which an absent key reads as) and null.
IncludeDeletedValues == Flags \cup {"null"}

\* The query of builder Q under filters f restricts to deletedAt = null
RestrictsToActive(selected, coll) ==
    selected = {i \in DOMAIN coll : coll[i].deletedAt = NullDate}

\* C25: the query builders of the user, product and category repositories
\* add deletedAt = null for every includeDeleted other than true (false,
\* absent, undefined, null) and leave it out only for true.
C25_BuildersRestrictUnlessTrue ==
    \A v \in IncludeDeletedValues :
        LET f == [pageNumber |-> 1, entryPerPage |-> EntryPerPage, includeDeleted |-> v,
                  categoryId |-> NoCategory]
            selectedUsers == {i \in DOMAIN users : UserGenerateQuery(f, users[i])}
            selectedProducts == {i \in DOMAIN products : ProductGenerateQuery(f, products[i])}
            selectedCategories ==
                {i \in DOMAIN categories : CategoryGenerateQuery(f, categories[i])}
        IN  IF v = "true"
            THEN /\ selectedUsers = DOMAIN users
                 /\ selectedProducts = DOMAIN products
                 /\ selectedCategories = DOMAIN categories
            ELSE /\ RestrictsToActive(selectedUsers, users)
                 /\ RestrictsToActive(selectedProducts, products)
                 /\ RestrictsToActive(selectedCategories, categories)

\* C25 witness: an admin has listed the products with includeDeleted false
\* while the store held a tombstoned product, and got no tombstoned record.
C25_Witness ==
    /\ last.op = "findAllProducts" /\ last.out = "ok"
    /\ last.actingUser.isAdmin /\ last.includeDeleted = "false"
    /\ \E i \in DOMAIN products : Tombstoned(products[i])
    /\ last.tombstones = 0

\* The patch names a new name: it carries a name, the empty one included
ChangesName(data) == data.name # NoText \/ data.emptyName

NewName(data) == IF data.emptyName THEN NoText ELSE data.name

\* C26: when an update patch changes the name of a product or category, the
\* slug stored after the update is the slug generated from the new name,
\* whatever slug the patch carried.
C26_SlugFollowsName ==
    /\ \A id \in DOMAIN products, data \in ProductPatches :
           LET c == ProductService_updateProduct(products, id, data, Admin) IN
           (ChangesName(data) /\ c.res.out = "ok")
               => /\ c.coll[id].name = NewName(data)
                  /\ c.coll[id].slug = generateSlug(NewName(data))
    /\ \A id \in DOMAIN categories, data \in CategoryPatches :
           LET c == CategoryService_updateCategory(categories, id, data, Admin) IN
           (ChangesName(data) /\ c.res.out = "ok")
               => /\ c.coll[id].name = NewName(data)
                  /\ c.coll[id].slug = generateSlug(NewName(data))

\* C27: no service operation mutates an object of the caller: after
\* findAllUsers, findAllProducts, findAllCategories, createCategory,
\* updateCategory and updateProduct (and createProduct) return, the filters
\* or data object has the field values it had before the call.
C27_CallerObjectsUntouched ==
    /\ \A f \in ListFilters, a \in UserActors :
           UserService_findAllUsers(users, f, a).filters = f
    /\ \A f \in ProductListFilters, a \in CatalogActors :
           ProductService_findAllProducts(products, f, a).filters = f
    /\ \A f \in ListFilters, a \in CatalogActors :
           CategoryService_findAllCategories(categories, f, a).filters = f
    /\ \A data \in CategoryInputs, a \in CatalogActors :
           CategoryService_createCategory_data(data, a) = data
    /\ \A data \in CategoryPatches, a \in CatalogActors :
           CategoryService_updateCategory_data(data, a) = data
    /\ \A data \in ProductPatches, a \in CatalogActors :
           ProductService_updateProduct_data(data, a) = data
    /\ \A data \in ProductInputs, a \in CatalogActors :
           ProductService_createProduct_data(data, a) = data

\* A call that ended in an authorization failure, a conflict or an
\* unexpected persistence failure left one log entry
LoggedOnce(res) ==
    res.out \in {"Unauthorized", "Conflict", "Internal"} => res.logs = 1

\* C28: every authorization failure, conflict and unexpected persistence
\* failure of an operation is logged exactly once: no failure of one
\* operation leaves two log entries.
C28_FailuresLoggedOnce ==
    /\ \A data \in RegisterInputs : LoggedOnce(UserService_registerUser(users, data).res)
    /\ \A id \in Ids(users), a \in UserActors, date \in Dates :
           /\ \A data \in UserPatches :
                  LoggedOnce(UserService_updateUser(users, id, data, a).res)
           /\ LoggedOnce(UserService_deleteUser(users, id, a, date).res)
    /\ \A a \in CatalogActors :
           /\ \A data \in ProductInputs :
                  LoggedOnce(ProductService_createProduct(products, data, a).res)
           /\ \A data \in CategoryInputs :
                  LoggedOnce(CategoryService_createCategory(categories, data, a).res)
           /\ \A id \in Ids(products), date \in Dates :
                  /\ \A data \in ProductPatches :
                         LoggedOnce(ProductService_updateProduct(products, id, data, a).res)
                  /\ LoggedOnce(ProductService_deleteProduct(products, id, a, date).res)
                  /\ LoggedOnce(ProductService_restoreProduct(products, id, a).res)
           /\ \A id \in Ids(categories), date \in Dates :
                  /\ \A data \in CategoryPatches :
                         LoggedOnce(CategoryService_updateCategory(categories, id, data, a).res)
                  /\ LoggedOnce(CategoryService_deleteCategory(categories, products, id, a,
                                                               date).res)
                  /\ LoggedOnce(CategoryService_restoreCategory(categories, id, a,
                                                                scen.strictQuery).res)

\* In the store as it is, a record matching the filters of the listing that
\* has returned lies beyond the page it returned
RecordBeyondPage ==
    (last.filters.pageNumber - 1) * last.filters.entryPerPage + Len(last.page.data)
        < Cardinality(ProductMatching(products, last.filters))

\* C29: the count and the page fetch of findAll are two reads with no
\* snapshot.  When no write falls between them (the first read still holds
\* when the second runs), hasNext is true exactly when a matching record
\* lies beyond the returned page; hasNext disagrees with the store only when
\* a write has made the first read stale.
C29_HasNextStaleOnlyByWrite ==
    last.op = "findAll"
        => /\ ~last.stale => (last.page.hasNext = RecordBeyondPage)
           /\ (last.page.hasNext # RecordBeyondPage) => last.stale

\* C29 witness: a write fell between the two reads of a listing, and the
\* hasNext it returned disagrees with the store.
C29_Witness ==
    /\ last.op = "findAll" /\ last.stale
    /\ last.page.hasNext # RecordBeyondPage

\* C30: an acting user who is not an admin gets no tombstoned record from a
\* catalog fetch (findAllProducts, findAllCategories, findProductById,
\* findProductBySlug, findProductByName, findCategoryById,
\* findCategoryBySlug), whatever includeDeleted the filters or options carry.
C30_NoTombstonesForVisitors ==
    \A a \in CatalogActors :
        ~a.isAdmin
            => /\ \A f \in ProductListFilters :
                      /\ TombstonesIn(products,
                             ProductService_findAllProducts(products, f, a).res) = 0
                      /\ TombstonesIn(categories,
                             CategoryService_findAllCategories(categories, f, a).res) = 0
               /\ \A id \in Ids(products) :
                      TombstonesIn(products, ProductService_findProductById(products, id, a)) = 0
               /\ \A n \in ProductNames :
                      /\ TombstonesIn(products,
                             ProductService_findProductByName(products, n, a)) = 0
                      /\ TombstonesIn(products,
                             ProductService_findProductBySlug(products, generateSlug(n), a)) = 0
               /\ \A id \in Ids(categories), o \in FindOptions :
                      TombstonesIn(categories,
                          CategoryService_findCategoryById(categories, id, o, a)) = 0
               /\ \A n \in CategoryNames, o \in FindOptions :
                      TombstonesIn(categories,
                          CategoryService_findCategoryBySlug(categories, generateSlug(n), o, a))
                          = 0

\* The slug of a stored document is the slug generated from its name
SlugOfName(doc) == doc.slug = generateSlug(doc.name)

\* C31: after any sequence of ProductService and CategoryService operations,
\* every stored product and category has slug = generateSlug(name): neither
\* create nor update leaves a record whose slug was not derived from its
\* current name.
C31_SlugDerivedFromName ==
    /\ \A i \in DOMAIN products : SlugOfName(products[i])
    /\ \A i \in DOMAIN categories : SlugOfName(categories[i])

\* An active user other than u holds the email of u
HoldsEmailOf(v, u) == v # u /\ ~Tombstoned(users[v]) /\ users[v].email = users[u].email

\* C32: while a user u is tombstoned (from a successful deleteUser(u) until
\* u is restored), authenticateUser never authenticates as u, whatever the
\* credentials; every changePassword for u fails and leaves the stored
\* passwords as they are, with NotFound once the call is past the test of
\* the caller and of the payload; and when a new active user holds the email
\* of u, authenticateUser resolves that email to the new user only.
C32_TombstonedUserIsLockedOut ==
    \A u \in DOMAIN users :
        Tombstoned(users[u])
            => /\ \A credentials \in LoginInputs :
                      UserService_authenticateUser(users, credentials).id # u
               /\ \A data \in ChangePasswordInputs, a \in UserActors :
                      LET c == UserService_changePassword(users, u, data, a) IN
                      /\ c.res.out \in {"Unauthorized", "Validation", "NotFound"}
                      /\ (changePassword_isSelf(u, a) /\ zChangePasswordSchema(data))
                             => c.res.out = "NotFound"
                      /\ c.coll = users
               /\ \A v \in DOMAIN users, credentials \in LoginInputs :
                      (HoldsEmailOf(v, u) /\ CastEmail(credentials.email) = users[u].email)
                          => LET res == UserService_authenticateUser(users, credentials) IN
                             /\ res.id \in {0, v}
                             /\ (bcryptCompare(credentials.password, users[v].password)
                                     /\ users[v].provider = "credentials")
                                    => res.id = v

\* C32 witness: user 1 was deleted with its password in place, a new user
\* registered the same email and changed its password, and authenticateUser
\* has just signed that new user in.
C32_Witness ==
    /\ last.op = "authenticateUser" /\ last.out = "ok"
    /\ \E u, v \in DOMAIN users :
           /\ Tombstoned(users[u]) /\ HoldsEmailOf(v, u)
           /\ users[u].password = bcryptHash("Pw1")
           /\ users[u].provider = "credentials"
           /\ users[v].password = bcryptHash("Pw2")
           /\ last.id = v

\* Between two collections, at most the named fields of the document id
\* differ: the other fields of that document and the other documents are
\* the same.
ChangesOnly(before, after, id, fields) ==
    /\ Len(after) = Len(before)
    /\ \A j \in DOMAIN before : j # id => after[j] = before[j]
    /\ DOMAIN after[id] = DOMAIN before[id]
    /\ \A f \in DOMAIN before[id] \ fields : after[id][f] = before[id][f]

\* The write moved the updatedAt of a document that carries one
Touched(before, after, id) ==
    "updatedAt" \in DOMAIN before[id] => after[id].updatedAt > before[id].updatedAt

\* A restore that did not succeed left the collection as it was
FailedRestoreChangesNothing(r, coll) == r.out # "ok" => r.coll = coll

\* C33 as stated: a successful soft-delete or restore changes only the
\* deletedAt field of the target record; every other field of that record
\* and every other record is unchanged; a restore that fails with Conflict
\* or returns null changes nothing.
C33_OnlyDeletedAtChanges ==
    /\ \A id \in Ids(users), date \in Dates :
           LET d == UserRepository_delete(users, id, date)
               r == UserRepository_restore(users, id) IN
           /\ d.out = "ok" => ChangesOnly(users, d.coll, id, {"deletedAt"})
           /\ r.out = "ok" => ChangesOnly(users, r.coll, id, {"deletedAt"})
           /\ FailedRestoreChangesNothing(r, users)
    /\ \A id \in Ids(products), date \in Dates :
           LET d == ProductRepository_delete(products, id, date)
               r == ProductRepository_restore(products, id) IN
           /\ d.out = "ok" => ChangesOnly(products, d.coll, id, {"deletedAt"})
           /\ r.out = "ok" => ChangesOnly(products, r.coll, id, {"deletedAt"})
           /\ FailedRestoreChangesNothing(r, products)
    /\ \A id \in Ids(categories), date \in Dates :
           LET d == CategoryRepository_delete(categories, id, date)
               r == CategoryRepository_restore(categories, id, scen.strictQuery) IN
           /\ d.out = "ok" => ChangesOnly(categories, d.coll, id, {"deletedAt"})
           /\ r.out = "ok" => ChangesOnly(categories, r.coll, id, {"deletedAt"})
           /\ FailedRestoreChangesNothing(r, categories)

\* C33, amended: a successful soft-delete or restore of a product changes
\* only the deletedAt of the target; of a user or a category it changes
\* deletedAt and moves updatedAt forward, and nothing else; the other
\* records are unchanged, and a restore that does not succeed (Conflict,
\* null, or the Internal error a conflict becomes) changes nothing.
C33_OnlyDeletedAtAndUpdatedAtChange ==
    /\ \A id \in Ids(users), date \in Dates :
           LET d == UserRepository_delete(users, id, date)
               r == UserRepository_restore(users, id) IN
           /\ d.out = "ok" => /\ ChangesOnly(users, d.coll, id, {"deletedAt", "updatedAt"})
                              /\ d.coll[id].deletedAt = date
                              /\ Touched(users, d.coll, id)
           /\ r.out = "ok" => /\ ChangesOnly(users, r.coll, id, {"deletedAt", "updatedAt"})
                              /\ r.coll[id].deletedAt = NullDate
                              /\ Touched(users, r.coll, id)
           /\ FailedRestoreChangesNothing(r, users)
    /\ \A id \in Ids(products), date \in Dates :
           LET d == ProductRepository_delete(products, id, date)
               r == ProductRepository_restore(products, id) IN
           /\ d.out = "ok" => /\ ChangesOnly(products, d.coll, id, {"deletedAt"})
                              /\ d.coll[id].deletedAt = date
           /\ r.out = "ok" => /\ ChangesOnly(products, r.coll, id, {"deletedAt"})
                              /\ r.coll[id].deletedAt = NullDate
           /\ FailedRestoreChangesNothing(r, products)
    /\ \A id \in Ids(categories), date \in Dates :
           LET d == CategoryRepository_delete(categories, id, date)
               r == CategoryRepository_restore(categories, id, scen.strictQuery) IN
           /\ d.out = "ok" => /\ ChangesOnly(categories, d.coll, id,
                                             {"deletedAt", "updatedAt"})
                              /\ d.coll[id].deletedAt = date
                              /\ Touched(categories, d.coll, id)
           /\ r.out = "ok" => /\ ChangesOnly(categories, r.coll, id,
                                             {"deletedAt", "updatedAt"})
                              /\ r.coll[id].deletedAt = NullDate
                              /\ Touched(categories, r.coll, id)
           /\ FailedRestoreChangesNothing(r, categories)

\* C33 witness: of two users, one was soft-deleted and has just been
\* restored, each write moving its updatedAt.
C33_Witness ==
    /\ last.op = "restoreUser" /\ last.out = "ok"
    /\ Len(users) = 2
    /\ "updatedAt" \in DOMAIN users[last.id]
    /\ users[last.id].updatedAt > 2
    /\ ~Tombstoned(users[last.id])

\* No other user, active or tombstoned, has the email of users[id]
OnlyUserOfEmail(id) ==
    \A j \in DOMAIN users : j # id => users[j].email # users[id].email

\* No other document of the collection has the name or the slug of coll[id]
OnlyOfNameAndSlug(coll, id) ==
    \A j \in DOMAIN coll :
        j # id => coll[j].name # coll[id].name /\ coll[j].slug # coll[id].slug

\* C34: round trip.  For an active record with no other record sharing its
\* uniqueness-bearing values, soft-delete followed immediately by restore
\* succeeds and returns the store to the state before the delete: every
\* record active or tombstoned as before, all fields equal.
C34_DeleteRestoreRoundTrip ==
    /\ \A id \in DOMAIN users, date \in Dates :
           (~Tombstoned(users[id]) /\ OnlyUserOfEmail(id))
               => LET d == UserRepository_delete(users, id, date)
                      r == UserRepository_restore(d.coll, id) IN
                  d.out = "ok" /\ r.out = "ok" /\ r.coll = users
    /\ \A id \in DOMAIN products, date \in Dates :
           (~Tombstoned(products[id]) /\ OnlyOfNameAndSlug(products, id))
               => LET d == ProductRepository_delete(products, id, date)
                      r == ProductRepository_restore(d.coll, id) IN
                  d.out = "ok" /\ r.out = "ok" /\ r.coll = products
    /\ \A id \in DOMAIN categories, date \in Dates :
           (~Tombstoned(categories[id]) /\ OnlyOfNameAndSlug(categories, id))
               => LET d == CategoryRepository_delete(categories, id, date)
                      r == CategoryRepository_restore(d.coll, id, scen.strictQuery) IN
                  d.out = "ok" /\ r.out = "ok" /\ r.coll = categories

\* A delete of a tombstoned document reported what the first delete did and
\* left the collection as it was
SecondDeleteIsNoOp(d, coll) == d.out = "ok" /\ d.coll = coll

\* C35: soft-delete is idempotent on the record's state: deleting an already
\* tombstoned record reports the same outcome as the first delete and leaves
\* the record, its deletedAt timestamp included, as the first delete left it.
C35_DeleteIsIdempotent ==
    /\ \A id \in DOMAIN users, date \in Dates :
           Tombstoned(users[id])
               => /\ SecondDeleteIsNoOp(UserRepository_delete(users, id, date), users)
                  /\ LET c == UserService_deleteUser(users, id, Admin, date) IN
                     SecondDeleteIsNoOp([out |-> c.res.out, coll |-> c.coll], users)
    /\ \A id \in DOMAIN products, date \in Dates :
           Tombstoned(products[id])
               => SecondDeleteIsNoOp(ProductRepository_delete(products, id, date), products)
    /\ \A id \in DOMAIN categories, date \in Dates :
           Tombstoned(categories[id])
               => SecondDeleteIsNoOp(CategoryRepository_delete(categories, id, date),
                                     categories)

\* C36: whenever deleteCategory(C) succeeds, no product references C at the
\* moment C is tombstoned, also when createProduct or updateProduct calls
\* that set categoryId = C run between the product scan of the guard and
\* the tombstone write; and once C is tombstoned, no product can be created
\* with or reassigned to categoryId = C.
C36_NoProductInDeletedCategory ==
    /\ (last.op = "deleteCategory" /\ last.out = "ok") => ~HasAssignedProduct(last.id)
    /\ \A c \in DOMAIN categories :
           Tombstoned(categories[c])
               => /\ \A data \in ProductInputs :
                         data.categoryId = c
                             => ProductService_createProduct(products, data, Admin).res.out
                                    # "ok"
                  /\ \A id \in DOMAIN products, data \in ProductPatches :
                         data.categoryId = c
                             => ProductService_updateProduct(products, id, data, Admin).res.out
                                    # "ok"

\* The active users that hold an email, as the schema stores it
ActiveHolders(coll, email) ==
    {i \in DOMAIN coll : ~Tombstoned(coll[i]) /\ coll[i].email = CastEmail(email)}

\* findOrCreateUserFromProvider, called on the store as it is, returns the
\* active user of the email or else adds one active user with it and
\* changes nothing else
FindsOrCreates(data) ==
    LET c == UserService_findOrCreateUserFromProvider(users, data)
        holders == ActiveHolders(users, data.email) IN
    /\ c.res.out = "ok"
    /\ IF holders # {}
       THEN c.res.id \in holders /\ c.coll = users
       ELSE /\ Len(c.coll) = Len(users) + 1
            /\ SubSeq(c.coll, 1, Len(users)) = users
            /\ c.res.id = Len(c.coll)
            /\ ActiveHolders(c.coll, data.email) = {c.res.id}

\* A call of findOrCreateUserFromProvider that has returned after an insert
\* the store rejected got a Conflict
RejectedInsertIsConflict(p) ==
    IF "inserted" \in DOMAIN procs[p]
    THEN (procs[p].inserted /\ procs[p].out # "ok") => procs[p].out = "Conflict"
    ELSE TRUE

\* C37: findOrCreateUserFromProvider returns the existing active user with
\* the given email when there is one and otherwise creates exactly one new
\* active user, also when only a tombstoned user holds that email, which
\* stays tombstoned; when two calls for one email interleave, exactly one
\* active user with that email exists afterwards and the call whose insert
\* is rejected fails with Conflict.
C37_FindOrCreateOnce ==
    /\ \A data \in ProviderInputs : FindsOrCreates(data)
    /\ (last.op = "findOrCreateUserFromProvider" /\ last.out = "ok")
           => ActiveHolders(users, users[last.id].email) = {last.id}
    /\ \A p \in Procs : RejectedInsertIsConflict(p)

====
